---- MODULE Spec2Model ----
(***************************************************************************)
(* State-machine model of the task engine of hack-2-todo: the task table,  *)
(* the HTTP routes of backend/src/todo_api/routers/tasks.py and the agent  *)
(* tools of backend/src/todo_api/mcp/tools.py.                             *)
(*                                                                         *)
(* Strings the code inspects (titles, tags, search terms, ISO dates) are   *)
(* sequences of one-character strings, so that strip(), lower(), split(),  *)
(* LIKE and fromisoformat() are computed, not assumed.  Enumerated strings *)
(* the code only compares (priority, recurring, sort keys) are TLA+        *)
(* strings.  An Optional value is <<>> (None) or <<x>>.  A datetime is the *)
(* number of minutes since 0001-01-01T00:00 (proleptic Gregorian).         *)
(***************************************************************************)
EXTENDS Integers, Sequences, FiniteSets, TLC

VARIABLES
    db,        \* the tasks table: task id -> row
    nextId,    \* the next value uuid4() hands out (ids are never reused)
    clock,     \* datetime.now(timezone.utc), in ticks
    resp,      \* the last call and its response
    manager,   \* the console application's TaskManager and its last result
    session    \* the store sessions of the requests in flight

vars == <<db, nextId, clock, resp, manager, session>>

\* The state outside the task table and its callers.
aux == <<manager, session>>

\* Bounds of the model.
MaxTasks == 3
MaxClock == 3

----------------------------------------------------------------------------
\* Optional values.

NULL == <<>>
Some(x) == <<x>>

\* Python truthiness of an Optional[str]: None and "" are falsy.
TruthyStr(o) == o # NULL /\ o[1] # ""

\* Python truthiness of an Optional[datetime]: every datetime is truthy.
TruthyDate(o) == o # NULL

----------------------------------------------------------------------------
\* str methods and SQL LIKE, on sequences of characters.

Whitespace == {" "}

RECURSIVE lstrip(_)
lstrip(s) == IF s # <<>> /\ Head(s) \in Whitespace THEN lstrip(Tail(s)) ELSE s

RECURSIVE rstrip(_)
rstrip(s) ==
    IF s # <<>> /\ s[Len(s)] \in Whitespace
    THEN rstrip(SubSeq(s, 1, Len(s) - 1))
    ELSE s

strip(s) == rstrip(lstrip(s))

LowerChar(c) ==
    CASE c = "A" -> "a"
      [] c = "B" -> "b"
      [] c = "W" -> "w"
      [] c = "H" -> "h"
      [] OTHER -> c

lower(s) == [i \in 1..Len(s) |-> LowerChar(s[i])]

\* s LIKE p: % matches any run of characters, _ any one character.
RECURSIVE Like(_, _)
Like(s, p) ==
    IF p = <<>> THEN s = <<>>
    ELSE IF Head(p) = "%"
         THEN Like(s, Tail(p)) \/ (s # <<>> /\ Like(Tail(s), p))
         ELSE /\ s # <<>>
              /\ (Head(p) = "_" \/ Head(p) = Head(s))
              /\ Like(Tail(s), Tail(p))

\* str.split(sep): the pieces between the separators, empty pieces kept.
RECURSIVE split(_, _)
split(s, sep) ==
    IF \A i \in 1..Len(s) : s[i] # sep THEN <<s>>
    ELSE LET k == CHOOSE i \in 1..Len(s) :
                      s[i] = sep /\ \A j \in 1..(i - 1) : s[j] # sep
         IN  <<SubSeq(s, 1, k - 1)>> \o split(SubSeq(s, k + 1, Len(s)), sep)

\* x in list
In(x, list) == \E i \in 1..Len(list) : list[i] = x

----------------------------------------------------------------------------
\* datetime, timedelta and datetime.fromisoformat.

timedelta(weeks, days, hours, minutes) ==
    ((weeks * 7 + days) * 24 + hours) * 60 + minutes

IsLeap(y) == y % 4 = 0 /\ (y % 100 # 0 \/ y % 400 = 0)

DaysInMonth(y, m) ==
    IF m = 2 THEN (IF IsLeap(y) THEN 29 ELSE 28)
    ELSE IF m \in {4, 6, 9, 11} THEN 30 ELSE 31

RECURSIVE DaysBeforeMonth(_, _)
DaysBeforeMonth(y, m) ==
    IF m = 1 THEN 0 ELSE DaysBeforeMonth(y, m - 1) + DaysInMonth(y, m - 1)

DaysBeforeYear(y) ==
    (y - 1) * 365 + (y - 1) \div 4 - (y - 1) \div 100 + (y - 1) \div 400

\* datetime(y, m, d, h, mi) as minutes since 0001-01-01T00:00.
datetime(y, m, d, h, mi) ==
    (DaysBeforeYear(y) + DaysBeforeMonth(y, m) + (d - 1)) * 24 * 60 + h * 60 + mi

Digits == {"0", "1", "2", "3", "4", "5", "6", "7", "8", "9"}

DigitVal(c) ==
    CASE c = "0" -> 0 [] c = "1" -> 1 [] c = "2" -> 2 [] c = "3" -> 3
      [] c = "4" -> 4 [] c = "5" -> 5 [] c = "6" -> 6 [] c = "7" -> 7
      [] c = "8" -> 8 [] c = "9" -> 9

RECURSIVE Num(_)
Num(s) == IF s = <<>> THEN 0 ELSE Num(SubSeq(s, 1, Len(s) - 1)) * 10 + DigitVal(s[Len(s)])

AllDigits(s) == \A i \in 1..Len(s) : s[i] \in Digits

\* due_date.replace("Z", "+00:00")
RECURSIVE replaceZ(_)
replaceZ(s) ==
    IF s = <<>> THEN <<>>
    ELSE (IF Head(s) = "Z" THEN <<"+", "0", "0", ":", "0", "0">> ELSE <<Head(s)>>)
         \o replaceZ(Tail(s))

UtcOffset == <<"+", "0", "0", ":", "0", "0">>

\* The date part YYYY-MM-DD of an ISO string.
IsoDateOk(s) ==
    /\ Len(s) = 10
    /\ AllDigits(SubSeq(s, 1, 4)) /\ s[5] = "-"
    /\ AllDigits(SubSeq(s, 6, 7)) /\ s[8] = "-"
    /\ AllDigits(SubSeq(s, 9, 10))
    /\ Num(SubSeq(s, 1, 4)) >= 1
    /\ Num(SubSeq(s, 6, 7)) \in 1..12
    /\ Num(SubSeq(s, 9, 10)) \in 1..DaysInMonth(Num(SubSeq(s, 1, 4)), Num(SubSeq(s, 6, 7)))

\* The time part THH:MM of an ISO string.
IsoTimeOk(s) ==
    /\ Len(s) = 6
    /\ s[1] = "T"
    /\ AllDigits(SubSeq(s, 2, 3)) /\ s[4] = ":"
    /\ AllDigits(SubSeq(s, 5, 6))
    /\ Num(SubSeq(s, 2, 3)) \in 0..23
    /\ Num(SubSeq(s, 5, 6)) \in 0..59

\* datetime.fromisoformat on the forms YYYY-MM-DD, YYYY-MM-DDTHH:MM and
\* YYYY-MM-DDTHH:MM+00:00; NULL stands for ValueError.
fromisoformat(s) ==
    LET body == IF Len(s) = 22 /\ SubSeq(s, 17, 22) = UtcOffset
                THEN SubSeq(s, 1, 16) ELSE s
        y  == Num(SubSeq(body, 1, 4))
        mo == Num(SubSeq(body, 6, 7))
        d  == Num(SubSeq(body, 9, 10))
    IN  IF Len(body) = 10 /\ IsoDateOk(body)
        THEN Some(datetime(y, mo, d, 0, 0))
        ELSE IF Len(body) = 16 /\ IsoDateOk(SubSeq(body, 1, 10))
                              /\ IsoTimeOk(SubSeq(body, 11, 16))
             THEN Some(datetime(y, mo, d, Num(SubSeq(body, 12, 13)),
                                Num(SubSeq(body, 15, 16))))
             ELSE NULL

----------------------------------------------------------------------------
\* The recurrence engine.

\* Variant: "monthly" read as a 31-day month.
calculate_next_due_date_31(current_due, pattern) ==
    IF pattern = "daily" THEN current_due + timedelta(0, 1, 0, 0)
    ELSE IF pattern = "weekly" THEN current_due + timedelta(1, 0, 0, 0)
    ELSE IF pattern = "monthly" THEN current_due + timedelta(0, 31, 0, 0)
    ELSE current_due

\* calculate_next_due_date(current_due, pattern)
calculate_next_due_date(current_due, pattern) ==
    IF pattern = "daily" THEN current_due + timedelta(0, 1, 0, 0)
    ELSE IF pattern = "weekly" THEN current_due + timedelta(1, 0, 0, 0)
    ELSE IF pattern = "monthly" THEN current_due + timedelta(0, 30, 0, 0)
    ELSE current_due

----------------------------------------------------------------------------
\* The Task row (models.py, class Task) and the request schemas.

MaxTitleLen == 200
MaxDescLen == 1000

Priorities == {"high", "medium", "low"}
RecurringPatterns == {"daily", "weekly", "monthly"}

\* Task(...): a new row; id = uuid4(), completed = False, created_at = now,
\* updated_at = None unless given.  The table model does not validate.
Task(id, user_id, title, description, priority, tags, due_date, reminder_at, recurring, recurring_parent_id, now) ==
    [id |-> id, user_id |-> user_id, title |-> title,
     description |-> description, completed |-> FALSE,
     created_at |-> now, updated_at |-> NULL,
     priority |-> priority, tags |-> tags, due_date |-> due_date,
     reminder_at |-> reminder_at, recurring |-> recurring,
     recurring_parent_id |-> recurring_parent_id]

\* TaskCreate.validate_title / TaskUpdate.validate_title: NULL is ValueError.
validate_title(v) ==
    LET s == strip(v)
    IN  IF s = <<>> THEN NULL
        ELSE IF Len(s) > MaxTitleLen THEN NULL ELSE Some(s)

\* TaskCreate.validate_description / TaskUpdate.validate_description
validate_description(v) ==
    LET s == strip(v)
    IN  IF Len(s) > MaxDescLen THEN NULL ELSE Some(s)

\* validate_priority
validate_priority(v) == v \in Priorities

\* validate_recurring, on an Optional[str]
validate_recurring(v) == v = NULL \/ v[1] \in RecurringPatterns

\* TaskCreate(**body): the validated model, or NULL for a 422.  The Field
\* constraints of TaskBase apply to the raw strings, the validators after.
TaskCreate(data) ==
    IF /\ Len(data.title) >= 1 /\ Len(data.title) <= MaxTitleLen
       /\ Len(data.description) <= MaxDescLen
       /\ validate_title(data.title) # NULL
       /\ validate_description(data.description) # NULL
       /\ validate_priority(data.priority)
       /\ validate_recurring(data.recurring)
    THEN Some([data EXCEPT !.title = validate_title(data.title)[1],
                           !.description = validate_description(data.description)[1]])
    ELSE NULL

\* TaskUpdate(**body): body is a record holding exactly the fields the
\* request sets (model_dump(exclude_unset=True)); NULL for a 422.
TaskUpdate(body) ==
    IF /\ "title" \in DOMAIN body =>
            /\ Len(body.title) >= 1 /\ Len(body.title) <= MaxTitleLen
            /\ validate_title(body.title) # NULL
       /\ "description" \in DOMAIN body =>
            /\ Len(body.description) <= MaxDescLen
            /\ validate_description(body.description) # NULL
       /\ "priority" \in DOMAIN body => validate_priority(body.priority)
       /\ "recurring" \in DOMAIN body => validate_recurring(body.recurring)
    THEN Some([f \in DOMAIN body |->
                 IF f = "title" THEN validate_title(body.title)[1]
                 ELSE IF f = "description" THEN validate_description(body.description)[1]
                 ELSE body[f]])
    ELSE NULL

----------------------------------------------------------------------------
\* The store and the responses.

\* Variant: the lookup without the owner filter.
FoundAnyOwner(user, task_id) == task_id \in DOMAIN db

\* select(Task).where(Task.id == task_id, Task.user_id == user.id).first()
Found(user, task_id) == task_id \in DOMAIN db /\ db[task_id].user_id = user

\* The rows of one user.
Owned(user) == {i \in DOMAIN db : db[i].user_id = user}

\* db.delete(task); db.commit()
Delete(task_id) == [i \in DOMAIN db \ {task_id} |-> db[i]]

\* A response: the call (op, user, task_id, req), the HTTP status (0 for a
\* tool), the error text ("" on success) and, for a listing, its body.
Resp(op, user, task_id, status, detail, req) ==
    [op |-> op, user |-> user, task_id |-> task_id, status |-> status,
     detail |-> detail, arg |-> NULL, req |-> req,
     tasks |-> <<>>, total |-> 0, pending_count |-> 0, completed_count |-> 0]

NotFoundText == "Task not found"

\* A tool's error result whose text does not interpolate its input.
ErrorRespNoArg(op, user, task_id, detail, arg, req) ==
    Resp(op, user, task_id, 0, detail, req)

\* {"error": f"<detail>: {arg}..."}: a tool's error result; arg is the input
\* the text interpolates.
ErrorResp(op, user, task_id, detail, arg, req) ==
    [Resp(op, user, task_id, 0, detail, req) EXCEPT !.arg = Some(arg)]

----------------------------------------------------------------------------
\* Inputs.

Users == {"u1", "u2"}

\* Every id the store ever hands out, and one it never does.
TaskIds == 1..(MaxTasks + 1)

D0101 == datetime(2024, 1, 1, 0, 0)
D0131 == datetime(2024, 1, 31, 0, 0)
D0301 == datetime(2024, 3, 1, 0, 0)

TagW == <<"w">>
TagH == <<"h">>

TitleAb == <<"A", "b">>
TitleB == <<" ", "b", " ">>
TitleBlank == <<" ">>
DescD == <<"d">>

Payload(title, description, priority, tags, due_date, recurring) ==
    [title |-> title, description |-> description, priority |-> priority,
     tags |-> tags, due_date |-> due_date, recurring |-> recurring]

\* Bodies of POST /api/v1/tasks (absent fields filled with their defaults).
CreateInputs ==
    { Payload(TitleAb, <<>>, "medium", <<>>, NULL, NULL),
      Payload(TitleB, DescD, "high", <<TagW>>, Some(D0131), Some("monthly")),
      Payload(TitleAb, <<>>, "low", <<TagW, TagH>>, Some(D0101), Some("weekly")),
      Payload(TitleAb, <<>>, "high", <<TagH>>, Some(D0101), Some("daily")),
      Payload(TitleAb, <<>>, "low", <<>>, NULL, Some("daily")),
      Payload(TitleAb, <<>>, "medium", <<>>, Some(D0101), NULL),
      Payload(TitleB, <<>>, "high", <<TagW>>, NULL, NULL),
      Payload(TitleAb, <<>>, "low", <<TagH>>, NULL, NULL),
      Payload(TitleBlank, <<>>, "medium", <<>>, NULL, NULL),
      Payload(TitleAb, <<>>, "urgent", <<>>, NULL, NULL),
      Payload(TitleAb, <<>>, "medium", <<>>, Some(D0101), Some("yearly")) }

Iso0131Z == <<"2", "0", "2", "4", "-", "0", "1", "-", "3", "1", "T", "0", "0", ":", "0", "0", "Z">>
Iso0101 == <<"2", "0", "2", "4", "-", "0", "1", "-", "0", "1">>
IsoBad == <<"2", "0", "2", "4", "-", "0", "2", "-", "3", "0">>

\* Arguments of the add_task tool: tags and due_date are Optional.
AddTaskInputs ==
    { Payload(TitleAb, <<>>, "medium", NULL, NULL, NULL),
      Payload(TitleAb, DescD, "high", Some(<<TagW>>), Some(Iso0131Z), Some("monthly")),
      Payload(TitleAb, <<>>, "urgent", NULL, Some(Iso0101), Some("yearly")),
      Payload(TitleAb, <<>>, "low", Some(<<TagH>>), Some(Iso0101), Some("daily")),
      Payload(TitleAb, <<>>, "low", NULL, Some(Iso0101), Some("")),
      Payload(TitleAb, <<>>, "low", NULL, Some(IsoBad), NULL) }

----------------------------------------------------------------------------
\* TaskManager.__init__: no tasks, and the first id is 1.  result is what the
\* last call returned; adds counts the calls of add() made so far.
ManagerInit ==
    [_tasks |-> <<>>, _next_id |-> 1,
     result |-> [op |-> "init", id |-> 0, ok |-> TRUE], adds |-> 0]

\* The requests that can be in flight at once.
Requests == {1, 2}

\* A request that has not opened its Session(engine) yet.  Once it has, task
\* is the row its select returned and pending the writes it has not
\* committed, grouped by the commit that will make them.
NoSession ==
    [pc |-> "idle", op |-> "", user |-> "", task_id |-> 0, arg |-> NULL,
     task |-> NULL, pending |-> <<>>]

Init ==
    /\ db = <<>>
    /\ nextId = 1
    /\ clock = 0
    /\ resp = Resp("init", "", 0, 0, "", NULL)
    /\ manager = ManagerInit
    /\ session = [r \in Requests |-> NoSession]

\* Bounds: a call that stores a row or stamps updated_at needs a tick left,
\* and a call that inserts needs an id left.
CanTick == clock < MaxClock
CanInsert == nextId <= MaxTasks

\* POST /api/v1/tasks
create_task(user, body) ==
    LET data == TaskCreate(body)
    IN  IF data = NULL
        THEN /\ resp' = Resp("create_task", user, 0, 422, "validation", body)
             /\ UNCHANGED <<db, nextId, clock>>
        ELSE /\ CanTick /\ CanInsert
             /\ db' = db @@ (nextId :>
                    Task(nextId, user, data[1].title, data[1].description,
                         data[1].priority, data[1].tags, data[1].due_date,
                         IF TruthyDate(data[1].due_date)
                         THEN Some(data[1].due_date[1] - timedelta(0, 0, 1, 0))
                         ELSE NULL,
                         data[1].recurring, NULL, clock))
             /\ nextId' = nextId + 1
             /\ clock' = clock + 1
             /\ resp' = Resp("create_task", user, nextId, 201, "", body)

\* tools.add_task
add_task(user, a) ==
    LET has_due == a.due_date # NULL /\ a.due_date[1] # <<>>
        parsed_due_date == IF has_due
                           THEN fromisoformat(replaceZ(a.due_date[1]))
                           ELSE NULL
        reminder_at == IF parsed_due_date # NULL
                       THEN Some(parsed_due_date[1] - timedelta(0, 0, 1, 0))
                       ELSE NULL
        priority == IF a.priority \notin Priorities THEN "medium" ELSE a.priority
        recurring == IF TruthyStr(a.recurring) /\ a.recurring[1] \notin RecurringPatterns
                     THEN NULL ELSE a.recurring
        tags == IF a.tags = NULL \/ a.tags = Some(<<>>) THEN <<>> ELSE a.tags[1]
    IN  IF has_due /\ parsed_due_date = NULL
        THEN /\ resp' = ErrorResp("add_task", user, 0, "Invalid due_date format", a.due_date[1], a)
             /\ UNCHANGED <<db, nextId, clock>>
        ELSE /\ CanTick /\ CanInsert
             /\ db' = db @@ (nextId :>
                    Task(nextId, user, a.title, a.description, priority, tags,
                         parsed_due_date, reminder_at, recurring, NULL, clock))
             /\ nextId' = nextId + 1
             /\ clock' = clock + 1
             /\ resp' = Resp("add_task", user, nextId, 0, "", a)

\* GET /api/v1/tasks/{task_id}
get_task(user, task_id) ==
    /\ resp' = IF Found(user, task_id)
               THEN Resp("get_task", user, task_id, 200, "", NULL)
               ELSE Resp("get_task", user, task_id, 404, NotFoundText, NULL)
    /\ UNCHANGED <<db, nextId, clock>>

\* recurring_parent_id is declared foreign_key="tasks.id" with no ON DELETE
\* rule: a row some other row names as its parent is referenced.
Referenced(task_id) ==
    \E i \in DOMAIN db : db[i].recurring_parent_id = Some(task_id)

\* The database behind DATABASE_URL enforces foreign keys (PostgreSQL) or
\* does not (SQLite without PRAGMA foreign_keys): the commit of the delete
\* of a referenced row raises IntegrityError in the first case.
ForeignKeysEnforced == BOOLEAN

\* DELETE /api/v1/tasks/{task_id}
delete_task(user, task_id) ==
    IF ~Found(user, task_id)
    THEN /\ resp' = Resp("delete_task", user, task_id, 404, NotFoundText, NULL)
         /\ UNCHANGED <<db, nextId, clock>>
    ELSE \E enforced \in ForeignKeysEnforced :
            IF enforced /\ Referenced(task_id)
            THEN /\ resp' = Resp("delete_task", user, task_id, 500, "IntegrityError", NULL)
                 /\ UNCHANGED <<db, nextId, clock>>
            ELSE /\ db' = Delete(task_id)
                 /\ resp' = Resp("delete_task", user, task_id, 204, "", NULL)
                 /\ UNCHANGED <<nextId, clock>>

\* tools.delete_task
tool_delete_task(user, task_id) ==
    IF ~Found(user, task_id)
    THEN /\ resp' = Resp("tool_delete_task", user, task_id, 0, NotFoundText, NULL)
         /\ UNCHANGED <<db, nextId, clock>>
    ELSE \E enforced \in ForeignKeysEnforced :
            IF enforced /\ Referenced(task_id)
            THEN /\ resp' = Resp("tool_delete_task", user, task_id, 0, "IntegrityError", NULL)
                 /\ UNCHANGED <<db, nextId, clock>>
            ELSE /\ db' = Delete(task_id)
                 /\ resp' = Resp("tool_delete_task", user, task_id, 0, "", NULL)
                 /\ UNCHANGED <<nextId, clock>>

\* toggle_task: whether the toggled row spawns its next occurrence.
ToggleSpawns(task) ==
    task.completed /\ TruthyStr(task.recurring) /\ TruthyDate(task.due_date)

\* Variant: the occurrence is built with the default priority and no tags.
ToggleNextTaskDefaults(task, user, id, now) ==
    LET next_due_date == calculate_next_due_date(task.due_date[1], task.recurring[1])
    IN  Task(id, user, task.title, task.description, "medium", <<>>,
             Some(next_due_date),
             Some(next_due_date - timedelta(0, 0, 1, 0)),
             task.recurring, Some(task.id), now)

\* toggle_task: the next occurrence of the (already toggled) row.
ToggleNextTask(task, user, id, now) ==
    LET next_due_date == calculate_next_due_date(task.due_date[1], task.recurring[1])
    IN  Task(id, user, task.title, task.description, task.priority, task.tags,
             Some(next_due_date),
             Some(next_due_date - timedelta(0, 0, 1, 0)),
             task.recurring, Some(task.id), now)

\* Variant: completing also clears the reminder of the row.
ToggledTaskReminderCleared(task, now) ==
    [task EXCEPT !.completed = ~@, !.updated_at = Some(now), !.reminder_at = NULL]

\* toggle_task: task.completed = not task.completed; task.updated_at = now
ToggledTask(task, now) ==
    [task EXCEPT !.completed = ~@, !.updated_at = Some(now)]

\* POST /api/v1/tasks/{task_id}/toggle
toggle_task(user, task_id) ==
    IF ~Found(user, task_id)
    THEN /\ resp' = Resp("toggle_task", user, task_id, 404, NotFoundText, NULL)
         /\ UNCHANGED <<db, nextId, clock>>
    ELSE LET task == ToggledTask(db[task_id], clock)
         IN  /\ CanTick
             /\ IF ToggleSpawns(task)
                THEN /\ CanInsert
                     /\ db' = [db EXCEPT ![task_id] = task] @@
                              (nextId :> ToggleNextTask(task, user, nextId, clock))
                     /\ nextId' = nextId + 1
                ELSE /\ db' = [db EXCEPT ![task_id] = task]
                     /\ nextId' = nextId
             /\ clock' = clock + 1
             /\ resp' = Resp("toggle_task", user, task_id, 200, "", NULL)

\* Variant: "is not None" in place of truthiness.
CompleteSpawnsNotNone(task) == task.recurring # NULL /\ TruthyDate(task.due_date)

\* complete_task: whether the completed row spawns its next occurrence.
CompleteSpawns(task) == TruthyStr(task.recurring) /\ TruthyDate(task.due_date)

\* complete_task: the next occurrence.
CompleteNextTask(task, user, id, now) ==
    LET next_due_date == calculate_next_due_date(task.due_date[1], task.recurring[1])
    IN  Task(id, user, task.title, task.description, task.priority, task.tags,
             Some(next_due_date),
             Some(next_due_date - timedelta(0, 0, 1, 0)),
             task.recurring, Some(task.id), now)

\* complete_task: task.completed = True; task.updated_at = now
CompletedTask(task, now) ==
    [task EXCEPT !.completed = TRUE, !.updated_at = Some(now)]

\* tools.complete_task
complete_task(user, task_id) ==
    IF ~Found(user, task_id)
    THEN /\ resp' = Resp("complete_task", user, task_id, 0, NotFoundText, NULL)
         /\ UNCHANGED <<db, nextId, clock>>
    ELSE LET task == CompletedTask(db[task_id], clock)
         IN  /\ CanTick
             /\ IF CompleteSpawns(task)
                THEN /\ CanInsert
                     /\ db' = [db EXCEPT ![task_id] = task] @@
                              (nextId :> CompleteNextTask(task, user, nextId, clock))
                     /\ nextId' = nextId + 1
                ELSE /\ db' = [db EXCEPT ![task_id] = task]
                     /\ nextId' = nextId
             /\ clock' = clock + 1
             /\ resp' = Resp("complete_task", user, task_id, 0, "", NULL)

\* update_task: for field, value in update_data.items(): setattr(task, field, value)
SetAttrs(task, update_data) ==
    [f \in DOMAIN task |-> IF f \in DOMAIN update_data THEN update_data[f] ELSE task[f]]

\* update_task: the row after the assignments of lines 181-189.
UpdatedTask(task, update_data, now) ==
    LET t == SetAttrs(task, update_data)
    IN  [t EXCEPT !.reminder_at =
                     IF "due_date" \in DOMAIN update_data /\ TruthyDate(update_data.due_date)
                     THEN Some(update_data.due_date[1] - timedelta(0, 0, 1, 0))
                     ELSE @,
                  !.updated_at = Some(now)]

\* PATCH /api/v1/tasks/{task_id}; the body is validated before the handler runs.
update_task(user, task_id, body) ==
    LET data == TaskUpdate(body)
    IN  IF data = NULL
        THEN /\ resp' = Resp("update_task", user, task_id, 422, "validation", body)
             /\ UNCHANGED <<db, nextId, clock>>
        ELSE IF ~Found(user, task_id)
        THEN /\ resp' = Resp("update_task", user, task_id, 404, NotFoundText, body)
             /\ UNCHANGED <<db, nextId, clock>>
        ELSE /\ CanTick
             /\ db' = [db EXCEPT ![task_id] = UpdatedTask(db[task_id], data[1], clock)]
             /\ clock' = clock + 1
             /\ resp' = Resp("update_task", user, task_id, 200, "", body)
             /\ UNCHANGED nextId

\* Bodies of PATCH /api/v1/tasks/{task_id}.  A body never sets title,
\* description, completed, priority or tags to null.
UpdateInputs ==
    { [completed |-> TRUE],
      [due_date |-> NULL],
      [due_date |-> Some(D0131)],
      [title |-> TitleB, description |-> DescD],
      [title |-> TitleBlank, due_date |-> NULL],
      [recurring |-> NULL, priority |-> "low"],
      [recurring |-> Some("yearly")] }

\* Variant: the reminder is set whenever a due date is given.
DueDateReminderAlways(due_date, set_reminder, reminder_minutes_before) ==
    IF TruthyDate(due_date)
    THEN Some(due_date[1] - timedelta(0, 0, 0, reminder_minutes_before))
    ELSE NULL

\* update_due_date: the reminder_at of lines 340-343.
DueDateReminder(due_date, set_reminder, reminder_minutes_before) ==
    IF TruthyDate(due_date) /\ set_reminder
    THEN Some(due_date[1] - timedelta(0, 0, 0, reminder_minutes_before))
    ELSE NULL

\* PATCH /api/v1/tasks/{task_id}/due-date
update_due_date(user, task_id, q) ==
    IF ~Found(user, task_id)
    THEN /\ resp' = Resp("update_due_date", user, task_id, 404, NotFoundText, q)
         /\ UNCHANGED <<db, nextId, clock>>
    ELSE /\ CanTick
         /\ db' = [db EXCEPT ![task_id] =
                     [@ EXCEPT !.due_date = q.due_date,
                               !.reminder_at = DueDateReminder(q.due_date, q.set_reminder,
                                                               q.reminder_minutes_before),
                               !.updated_at = Some(clock)]]
         /\ clock' = clock + 1
         /\ resp' = Resp("update_due_date", user, task_id, 200, "", q)
         /\ UNCHANGED nextId

DueQuery(due_date, set_reminder, reminder_minutes_before) ==
    [due_date |-> due_date, set_reminder |-> set_reminder,
     reminder_minutes_before |-> reminder_minutes_before]

\* Query parameters of the due-date route.
DueDateInputs ==
    { DueQuery(Some(D0131), TRUE, 60),
      DueQuery(Some(D0131), TRUE, 30),
      DueQuery(Some(D0101), FALSE, 60),
      DueQuery(NULL, TRUE, 60) }

\* Variant: the reminder is left as it was.
ToolUpdateReminderKept(task, due) == task.reminder_at

\* tools.update_task: task.reminder_at = task.due_date - timedelta(hours=1)
ToolUpdateReminder(task, due) == Some(due - timedelta(0, 0, 1, 0))

\* tools.update_task: the row after the assignments of lines 285-305.
ToolUpdatedTask(task, a, now) ==
    [task EXCEPT
       !.title = IF a.title # NULL THEN a.title[1] ELSE @,
       !.description = IF a.description # NULL THEN a.description[1] ELSE @,
       !.priority = IF a.priority # NULL /\ a.priority[1] \in Priorities
                    THEN a.priority[1] ELSE @,
       !.tags = IF a.tags # NULL THEN a.tags[1] ELSE @,
       !.due_date = IF a.due_date # NULL
                    THEN fromisoformat(replaceZ(a.due_date[1])) ELSE @,
       !.reminder_at = IF a.due_date # NULL
                       THEN ToolUpdateReminder(task, fromisoformat(replaceZ(a.due_date[1]))[1])
                       ELSE @,
       !.recurring = IF a.recurring # NULL
                     THEN (IF a.recurring[1] # "" THEN a.recurring ELSE NULL)
                     ELSE @,
       !.updated_at = Some(now)]

\* tools.update_task: an error return leaves the session uncommitted.
tool_update_task(user, task_id, a) ==
    IF ~Found(user, task_id)
    THEN /\ resp' = Resp("tool_update_task", user, task_id, 0, NotFoundText, a)
         /\ UNCHANGED <<db, nextId, clock>>
    ELSE IF a.due_date # NULL /\ fromisoformat(replaceZ(a.due_date[1])) = NULL
    THEN /\ resp' = ErrorResp("tool_update_task", user, task_id, "Invalid due_date format", a.due_date[1], a)
         /\ UNCHANGED <<db, nextId, clock>>
    ELSE IF a.recurring # NULL /\ a.recurring[1] \notin (RecurringPatterns \cup {""})
    THEN /\ resp' = ErrorResp("tool_update_task", user, task_id, "Invalid recurring pattern", a.recurring[1], a)
         /\ UNCHANGED <<db, nextId, clock>>
    ELSE /\ CanTick
         /\ db' = [db EXCEPT ![task_id] = ToolUpdatedTask(db[task_id], a, clock)]
         /\ clock' = clock + 1
         /\ resp' = Resp("tool_update_task", user, task_id, 0, "", a)
         /\ UNCHANGED nextId

ToolUpdate(title, description, priority, tags, due_date, recurring) ==
    [title |-> title, description |-> description, priority |-> priority,
     tags |-> tags, due_date |-> due_date, recurring |-> recurring]

\* Arguments of the update_task tool; every one is Optional.
ToolUpdateInputs ==
    { ToolUpdate(NULL, NULL, NULL, NULL, Some(Iso0131Z), NULL),
      ToolUpdate(Some(TitleB), NULL, Some("high"), NULL, Some(IsoBad), NULL),
      ToolUpdate(NULL, NULL, Some("urgent"), NULL, NULL, Some("")),
      ToolUpdate(NULL, NULL, NULL, Some(<<TagW, TagW>>), NULL, Some("yearly")) }

\* tools.set_due_date: the date is parsed before the row is looked up.
set_due_date(user, task_id, due_date) ==
    LET parsed_date == fromisoformat(replaceZ(due_date))
    IN  IF parsed_date = NULL
        THEN /\ resp' = ErrorResp("set_due_date", user, task_id, "Invalid due_date format", due_date, due_date)
             /\ UNCHANGED <<db, nextId, clock>>
        ELSE IF ~Found(user, task_id)
        THEN /\ resp' = Resp("set_due_date", user, task_id, 0, NotFoundText, due_date)
             /\ UNCHANGED <<db, nextId, clock>>
        ELSE /\ CanTick
             /\ db' = [db EXCEPT ![task_id] =
                         [@ EXCEPT !.due_date = parsed_date,
                                   !.reminder_at = Some(parsed_date[1] - timedelta(0, 0, 1, 0)),
                                   !.updated_at = Some(clock)]]
             /\ clock' = clock + 1
             /\ resp' = Resp("set_due_date", user, task_id, 0, "", due_date)
             /\ UNCHANGED nextId

\* Arguments of the set_due_date tool.
SetDueDateInputs == {Iso0101, Iso0131Z, IsoBad}

----------------------------------------------------------------------------
\* The query engine: list_tasks on both surfaces.

Min(a, b) == IF a < b THEN a ELSE b

\* Code points of the characters titles are made of.
CharCode(c) ==
    CASE c = " " -> 32 [] c = "%" -> 37 [] c = "A" -> 65 [] c = "B" -> 66
      [] c = "_" -> 95 [] c = "a" -> 97 [] c = "b" -> 98 [] c = "d" -> 100
      [] c = "h" -> 104 [] c = "w" -> 119 [] OTHER -> 127

\* a < b on strings
RECURSIVE StrLess(_, _)
StrLess(a, b) ==
    IF b = <<>> THEN FALSE
    ELSE IF a = <<>> THEN TRUE
    ELSE IF Head(a) # Head(b) THEN CharCode(Head(a)) < CharCode(Head(b))
    ELSE StrLess(Tail(a), Tail(b))

\* Task.tags.contains([tag]): the row's tag list holds the tag.
TagsContain(t, tag) == In(tag, t.tags)

\* tag_list = [t.strip() for t in tags.split(",") if t.strip()]
TagList(tags) ==
    LET parts == split(tags, ",")
    IN  {strip(parts[i]) : i \in {j \in 1..Len(parts) : strip(parts[j]) # <<>>}}

\* Variant: a status value other than pending and completed drops the
\* legacy flag.
StatusFilterStatusOnly(t, q) ==
    IF q.status = Some("pending") THEN ~t.completed
    ELSE IF q.status = Some("completed") THEN t.completed
    ELSE IF q.status = NULL /\ q.completed # NULL THEN t.completed = q.completed[1]
    ELSE TRUE

\* list_tasks lines 40-46: the status filter.
StatusFilter(t, q) ==
    IF q.status = Some("pending") THEN ~t.completed
    ELSE IF q.status = Some("completed") THEN t.completed
    ELSE IF q.completed # NULL THEN t.completed = q.completed[1]
    ELSE TRUE

\* Variant: every requested tag must be on the row.
TagsFilterAll(t, q) ==
    (q.tags # NULL /\ TagList(q.tags[1]) # {}) =>
        \A tag \in TagList(q.tags[1]) : TagsContain(t, tag)

\* list_tasks lines 52-63: the tags filter.
TagsFilter(t, q) ==
    (q.tags # NULL /\ TagList(q.tags[1]) # {}) =>
        \E tag \in TagList(q.tags[1]) : TagsContain(t, tag)

\* list_tasks lines 65-68: the search filter.
SearchFilter(t, q) ==
    (q.search # NULL /\ strip(q.search[1]) # <<>>) =>
        Like(lower(t.title), <<"%">> \o lower(strip(q.search[1])) \o <<"%">>)

\* Variant: the statement selects from every user's rows.
ListWhereAnyUser(user, q) ==
    {i \in DOMAIN db :
        /\ StatusFilter(db[i], q)
        /\ (q.priority # NULL => db[i].priority = q.priority[1])
        /\ TagsFilter(db[i], q)
        /\ SearchFilter(db[i], q)}

\* list_tasks lines 38-68: the rows the statement selects.
ListWhere(user, q) ==
    {i \in Owned(user) :
        /\ StatusFilter(db[i], q)
        /\ (q.priority # NULL => db[i].priority = q.priority[1])
        /\ TagsFilter(db[i], q)
        /\ SearchFilter(db[i], q)}

\* priority_order = func.case((...), ..., else_=4): func is the generator of
\* generic SQL functions, not the CASE construct, and the Function it builds
\* takes no else_ keyword, so evaluating the expression raises TypeError
\* before any ORDER BY exists.  The request is answered 500.
PriorityOrderRaises(sort) == sort = Some("priority")

\* Variant: ORDER BY without nullslast(), where descending order puts the
\* rows without a due date first.
OrderedBeforeNullsByDefault(a, b, sort, order) ==
    IF sort = Some("due_date")
    THEN IF order = "asc"
         THEN \/ a.due_date # NULL /\ b.due_date = NULL
              \/ a.due_date # NULL /\ b.due_date # NULL /\ a.due_date[1] < b.due_date[1]
         ELSE \/ a.due_date = NULL /\ b.due_date # NULL
              \/ a.due_date # NULL /\ b.due_date # NULL /\ a.due_date[1] > b.due_date[1]
    ELSE IF sort = Some("title")
    THEN IF order = "asc" THEN StrLess(lower(a.title), lower(b.title))
                          ELSE StrLess(lower(b.title), lower(a.title))
    ELSE IF order = "asc" THEN a.created_at < b.created_at
                          ELSE a.created_at > b.created_at

\* list_tasks lines 70-99: row a must come before row b under ORDER BY
\* (sort is due_date, title, created_at or absent).
OrderedBefore(a, b, sort, order) ==
    IF sort = Some("due_date")
    THEN \/ a.due_date # NULL /\ b.due_date = NULL
         \/ /\ a.due_date # NULL /\ b.due_date # NULL
            /\ IF order = "asc" THEN a.due_date[1] < b.due_date[1]
                                ELSE a.due_date[1] > b.due_date[1]
    ELSE IF sort = Some("title")
    THEN IF order = "asc" THEN StrLess(lower(a.title), lower(b.title))
                          ELSE StrLess(lower(b.title), lower(a.title))
    ELSE IF order = "asc" THEN a.created_at < b.created_at
                          ELSE a.created_at > b.created_at

\* The sequences ORDER BY may produce from the selected rows: rows with
\* equal keys come in any order.
Ordered(ids, sort, order) ==
    {f \in [1..Cardinality(ids) -> ids] :
        /\ \A i, j \in 1..Cardinality(ids) : i # j => f[i] # f[j]
        /\ \A i, j \in 1..Cardinality(ids) :
              i < j => ~OrderedBefore(db[f[j]], db[f[i]], sort, order)}

\* Variant: the limit is applied before the offset.
PageLimitFirst(seq, offset, limit) ==
    SubSeq(SubSeq(seq, 1, Min(Len(seq), limit)), offset + 1, Min(Len(seq), limit))

\* statement.offset(offset).limit(limit)
Page(seq, offset, limit) == SubSeq(seq, offset + 1, Min(Len(seq), offset + limit))

\* Variant: total counts the rows the filters select.
ListTotalFiltered(user, q) == Cardinality(ListWhere(user, q))

\* list_tasks lines 105-106: total
ListTotal(user, q) == Cardinality(Owned(user))

\* list_tasks lines 108-110: pending_count
ListPending(user, q) == Cardinality({i \in Owned(user) : ~db[i].completed})

\* list_tasks lines 112-114: completed_count
ListCompleted(user, q) == Cardinality({i \in Owned(user) : db[i].completed})

\* Query(ge=1, le=100) and Query(ge=0)
MinLimit == 1
MaxLimit == 100
DefaultLimit == 50

\* GET /api/v1/tasks
list_tasks(user, q) ==
    /\ UNCHANGED <<db, nextId, clock>>
    /\ IF q.limit < MinLimit \/ q.limit > MaxLimit \/ q.offset < 0
       THEN resp' = Resp("list_tasks", user, 0, 422, "validation", q)
       ELSE IF PriorityOrderRaises(q.sort)
       THEN resp' = Resp("list_tasks", user, 0, 500, "Internal Server Error", q)
       ELSE \E seq \in Ordered(ListWhere(user, q), q.sort, q.order) :
               resp' = [Resp("list_tasks", user, 0, 200, "", q) EXCEPT
                          !.tasks = Page(seq, q.offset, q.limit),
                          !.total = ListTotal(user, q),
                          !.pending_count = ListPending(user, q),
                          !.completed_count = ListCompleted(user, q)]

\* tools.list_tasks lines 109-129: the rows the statement selects.
ToolListWhere(user, a) ==
    {i \in Owned(user) :
        /\ (a.status = "pending" => ~db[i].completed)
        /\ (a.status = "completed" => db[i].completed)
        /\ ((a.priority # NULL /\ a.priority[1] \in Priorities) =>
               db[i].priority = a.priority[1])
        /\ ((a.tags # NULL /\ a.tags[1] # <<>>) =>
               \E k \in 1..Len(a.tags[1]) : TagsContain(db[i], a.tags[1][k]))
        /\ ((a.search # NULL /\ a.search[1] # <<>>) =>
               Like(lower(db[i].title), <<"%">> \o lower(a.search[1]) \o <<"%">>))}

\* tools.list_tasks lines 131-145: ascending, except created_at descending.
ToolOrder(sort_by) ==
    IF sort_by \in {Some("due_date"), Some("title")}
    THEN [sort |-> sort_by, order |-> "asc"]
    ELSE [sort |-> NULL, order |-> "desc"]

\* tools.list_tasks: the exception of priority_order leaves the function.
tool_list_tasks(user, a) ==
    /\ UNCHANGED <<db, nextId, clock>>
    /\ IF PriorityOrderRaises(a.sort_by)
       THEN resp' = Resp("tool_list_tasks", user, 0, 0, "TypeError", a)
       ELSE \E seq \in Ordered(ToolListWhere(user, a), ToolOrder(a.sort_by).sort,
                               ToolOrder(a.sort_by).order) :
               resp' = [Resp("tool_list_tasks", user, 0, 0, "", a) EXCEPT
                          !.tasks = Page(seq, 0, a.limit)]

----------------------------------------------------------------------------
\* Workloads.  A call is made by the owner of the row (OwnCalls) or by any
\* user on any id, stored or not (AnyCalls).

OwnCalls == {<<db[i].user_id, i>> : i \in DOMAIN db}
AnyCalls == Users \X TaskIds

\* Bodies and arguments that create the rows completion is about: recurring
\* with a due date (monthly, weekly, daily), recurring without a due date,
\* and a due date without recurrence.
RecurCreateInputs ==
    {b \in CreateInputs : TaskCreate(b) # NULL /\ (b.due_date # NULL \/ b.recurring # NULL)}
RecurAddInputs ==
    {a \in AddTaskInputs : a.recurring \in {Some("monthly"), Some("")}}

\* Completion and recurrence: both surfaces create, owners toggle and complete.
NextRecur ==
    \/ \E u \in Users, body \in RecurCreateInputs : create_task(u, body) /\ UNCHANGED aux
    \/ \E u \in Users, a \in RecurAddInputs : add_task(u, a) /\ UNCHANGED aux
    \/ \E c \in OwnCalls : toggle_task(c[1], c[2]) /\ UNCHANGED aux
    \/ \E c \in OwnCalls : complete_task(c[1], c[2]) /\ UNCHANGED aux

SpecRecur == Init /\ [][NextRecur]_vars

----------------------------------------------------------------------------
\* Completion and recurrence (SpecRecur).

\* The step is a successful toggle_task or complete_task on row i that takes
\* it from Pending to Completed.
CompletionStep(i) ==
    /\ resp'.op \in {"toggle_task", "complete_task"}
    /\ resp'.detail = "" /\ resp'.task_id = i
    /\ i \in DOMAIN db /\ ~db[i].completed
    /\ i \in DOMAIN db' /\ db'[i].completed

\* The rows the step inserts.
Inserted == DOMAIN db' \ DOMAIN db

\* The row has a recurrence pattern and a due date.
RecurringWithDue(t) ==
    /\ t.recurring # NULL /\ t.recurring[1] \in RecurringPatterns
    /\ t.due_date # NULL

DueOffsetDays(pattern) ==
    CASE pattern = "daily" -> 1 [] pattern = "weekly" -> 7 [] pattern = "monthly" -> 30

\* C1: a toggle_task or complete_task step that completes a Pending row with
\* recurring and due_date set inserts exactly one row, whose due_date is the
\* source's plus 1 day (daily), 7 days (weekly) or 30 days (monthly); monthly
\* from 2024-01-31 gives 2024-03-01.
C1_NextDueDate ==
    [][\A i \in DOMAIN db :
         (CompletionStep(i) /\ RecurringWithDue(db[i])) =>
            \E n \in Inserted :
               /\ Inserted = {n}
               /\ db'[n].due_date =
                    Some(db[i].due_date[1] + DueOffsetDays(db[i].recurring[1]) * 24 * 60)
               /\ (db[i].recurring = Some("monthly") /\ db[i].due_date = Some(D0131)
                     => db'[n].due_date = Some(D0301))]_vars

\* C1 witness: a monthly row due 2024-01-31 was completed and its occurrence,
\* due 2024-03-01, is stored.
C1_Witness ==
    /\ resp.op \in {"toggle_task", "complete_task"} /\ resp.detail = ""
    /\ resp.task_id \in DOMAIN db
    /\ db[resp.task_id].completed
    /\ db[resp.task_id].recurring = Some("monthly")
    /\ db[resp.task_id].due_date = Some(D0131)
    /\ \E n \in DOMAIN db :
          /\ db[n].recurring_parent_id = Some(resp.task_id)
          /\ db[n].due_date = Some(D0301)

\* C2: the row inserted by completing a recurring row copies the source's
\* title, description, priority, tags and recurring, has the source's owner,
\* points back at the source, is Pending, and has an id no stored row had.
C2_SpawnCopiesSource ==
    [][\A i \in DOMAIN db :
         (CompletionStep(i) /\ RecurringWithDue(db[i])) =>
            \A n \in Inserted :
               /\ db'[n].title = db[i].title
               /\ db'[n].description = db[i].description
               /\ db'[n].priority = db[i].priority
               /\ db'[n].tags = db[i].tags
               /\ db'[n].recurring = db[i].recurring
               /\ db'[n].user_id = db[i].user_id
               /\ db'[n].recurring_parent_id = Some(i)
               /\ db'[n].completed = FALSE
               /\ db'[n].id = n
               /\ \A j \in DOMAIN db : db[j].id # n]_vars

\* C2 witness: a completed recurring row with tags and a non-default priority
\* has an occurrence in the store.
C2_Witness ==
    /\ resp.op \in {"toggle_task", "complete_task"} /\ resp.detail = ""
    /\ resp.task_id \in DOMAIN db
    /\ db[resp.task_id].completed
    /\ db[resp.task_id].tags # <<>>
    /\ db[resp.task_id].priority # "medium"
    /\ \E n \in DOMAIN db : db[n].recurring_parent_id = Some(resp.task_id)

\* C3: a row that points back at row i is inserted only by a step that takes
\* row i from Pending to Completed.
C3_SpawnOnlyOnForwardTransition ==
    [][\A n \in Inserted :
         db'[n].recurring_parent_id # NULL =>
            LET i == db'[n].recurring_parent_id[1]
            IN  i \in DOMAIN db /\ ~db[i].completed /\ db'[i].completed]_vars

\* C4: completing a Pending row that has no recurrence pattern, or has one
\* but no due date, inserts nothing: the ids are the same before and after,
\* the row is marked done and stamped, and every other row is unchanged.
C4_PlainCompletionInsertsNothing ==
    [][\A i \in DOMAIN db :
         (CompletionStep(i) /\ ~RecurringWithDue(db[i])) =>
            /\ DOMAIN db' = DOMAIN db
            /\ db'[i] = [db[i] EXCEPT !.completed = TRUE, !.updated_at = db'[i].updated_at]
            /\ \A j \in DOMAIN db \ {i} : db'[j] = db[j]]_vars

\* C4 witness: a row with a due date and recurring = "" (no pattern), and a
\* row with a pattern and no due date, were completed and nothing points
\* back at the one completed last.
C4_Witness ==
    /\ resp.op \in {"toggle_task", "complete_task"} /\ resp.detail = ""
    /\ resp.task_id \in DOMAIN db
    /\ db[resp.task_id].completed
    /\ ~RecurringWithDue(db[resp.task_id])
    /\ db[resp.task_id].recurring # NULL
    /\ \A n \in DOMAIN db : db[n].recurring_parent_id # Some(resp.task_id)

----------------------------------------------------------------------------
\* Owner scoping (SpecOwner): both users create, and every user calls every
\* route on every id.

OwnerCreateInputs == {b \in CreateInputs : b.recurring = Some("monthly")}
OwnerUpdateInputs == {b \in UpdateInputs : "title" \in DOMAIN b}

NextOwner ==
    \/ \E u \in Users, body \in OwnerCreateInputs : create_task(u, body) /\ UNCHANGED aux
    \/ \E c \in AnyCalls : get_task(c[1], c[2]) /\ UNCHANGED aux
    \/ \E c \in AnyCalls, body \in OwnerUpdateInputs : update_task(c[1], c[2], body) /\ UNCHANGED aux
    \/ \E c \in AnyCalls : delete_task(c[1], c[2]) /\ UNCHANGED aux
    \/ \E c \in AnyCalls : toggle_task(c[1], c[2]) /\ UNCHANGED aux
    \/ \E c \in AnyCalls : complete_task(c[1], c[2]) /\ UNCHANGED aux

SpecOwner == Init /\ [][NextOwner]_vars

OwnerScopedOps ==
    {"get_task", "update_task", "delete_task", "toggle_task", "complete_task"}

HttpOps == {"get_task", "update_task", "delete_task", "toggle_task"}

\* The one response a call gets for a row it cannot see.
NotFoundResp(r) ==
    Resp(r.op, r.user, r.task_id, IF r.op \in HttpOps THEN 404 ELSE 0,
         NotFoundText, r.req)

\* C5: a get, update, delete, toggle or complete call on an id whose row
\* belongs to another user gets the response a call on an id with no row
\* gets, Task not found (a body that fails validation is refused with 422
\* in both cases), and the call leaves the store as it was.
C5_ForeignIsNotFound ==
    [][(/\ resp'.op \in OwnerScopedOps
        /\ ~(resp'.task_id \in DOMAIN db /\ db[resp'.task_id].user_id = resp'.user))
       => /\ db' = db
          /\ IF resp'.op = "update_task" /\ TaskUpdate(resp'.req) = NULL
             THEN resp'.status = 422
             ELSE resp' = NotFoundResp(resp')]_vars

\* C5 witness: the last call was a valid update of a row of another user.
C5_Witness ==
    /\ resp.op = "update_task"
    /\ resp.task_id \in DOMAIN db
    /\ db[resp.task_id].user_id # resp.user
    /\ TaskUpdate(resp.req) # NULL
    /\ resp.detail = NotFoundText

----------------------------------------------------------------------------
\* Due dates and reminders (SpecDue): one user creates on both surfaces and
\* sets, changes and clears due dates by every operation that can.

DueCreateInputs ==
    {b \in CreateInputs : TaskCreate(b) # NULL /\ b.priority = "medium"}
        \cup {b \in CreateInputs : b.recurring = Some("daily") /\ b.due_date # NULL}
DueAddInputs == {a \in AddTaskInputs : a.recurring = Some("monthly")}
DueUpdateInputs == {b \in UpdateInputs : DOMAIN b = {"due_date"}}
DueToolUpdateInputs == {a \in ToolUpdateInputs : a.due_date # NULL}

NextDue ==
    \/ \E body \in DueCreateInputs : create_task("u1", body) /\ UNCHANGED aux
    \/ \E a \in DueAddInputs : add_task("u1", a) /\ UNCHANGED aux
    \/ \E c \in OwnCalls, body \in DueUpdateInputs : update_task(c[1], c[2], body) /\ UNCHANGED aux
    \/ \E c \in OwnCalls, q \in DueDateInputs : update_due_date(c[1], c[2], q) /\ UNCHANGED aux
    \/ \E c \in OwnCalls, a \in DueToolUpdateInputs : tool_update_task(c[1], c[2], a) /\ UNCHANGED aux
    \/ \E c \in OwnCalls, d \in SetDueDateInputs : set_due_date(c[1], c[2], d) /\ UNCHANGED aux
    \/ \E c \in OwnCalls : toggle_task(c[1], c[2]) /\ UNCHANGED aux
    \/ \E c \in OwnCalls : complete_task(c[1], c[2]) /\ UNCHANGED aux

SpecDue == Init /\ [][NextDue]_vars

\* C8: every stored row whose reminder_at is set has due_date set.
C8_ReminderImpliesDue ==
    \A i \in DOMAIN db : db[i].reminder_at # NULL => db[i].due_date # NULL

\* The step stores due date d on row i: it inserts the row with it, changes
\* the row's due date to it, or is a successful update or set-due-date call
\* on the row that names it.
SetsDue(i, d) ==
    /\ i \in DOMAIN db' /\ db'[i].due_date = Some(d)
    /\ \/ i \notin DOMAIN db
       \/ db[i].due_date # Some(d)
       \/ /\ resp'.task_id = i /\ resp'.detail = ""
          /\ resp'.op \in {"update_task", "update_due_date", "tool_update_task", "set_due_date"}
          /\ (resp'.op = "update_task" => "due_date" \in DOMAIN resp'.req)
          /\ (resp'.op = "tool_update_task" => resp'.req.due_date # NULL)

DueValues == {db'[i].due_date[1] : i \in {j \in DOMAIN db' : db'[j].due_date # NULL}}

\* C9 as stated: after a step that stores due date d on a row, the row's
\* reminder_at is d minus 1 hour, and for the due-date route d minus the
\* reminder_minutes_before of the call.
C9_ReminderIsDueMinusOffset ==
    [][\A i \in DOMAIN db' : \A d \in DueValues :
         SetsDue(i, d) =>
            db'[i].reminder_at =
               IF resp'.op = "update_due_date"
               THEN Some(d - resp'.req.reminder_minutes_before)
               ELSE Some(d - 60)]_vars

\* C9 as amended: the same, except that the due-date route called with
\* set_reminder = false stores no reminder.
C9_ReminderIsDueMinusOffsetIfSet ==
    [][\A i \in DOMAIN db' : \A d \in DueValues :
         SetsDue(i, d) =>
            db'[i].reminder_at =
               IF resp'.op = "update_due_date"
               THEN (IF resp'.req.set_reminder
                     THEN Some(d - resp'.req.reminder_minutes_before)
                     ELSE NULL)
               ELSE Some(d - 60)]_vars

\* C9 witness: the due-date route stored a due date with a 30 minute
\* reminder on a row that had another due date.
C9_Witness ==
    /\ resp.op = "update_due_date" /\ resp.detail = ""
    /\ resp.req.reminder_minutes_before = 30
    /\ resp.task_id \in DOMAIN db
    /\ db[resp.task_id].due_date = resp.req.due_date
    /\ db[resp.task_id].reminder_at = Some(resp.req.due_date[1] - 30)

----------------------------------------------------------------------------
\* Listing (SpecQuery): both users create rows that differ in title,
\* priority and tags, owners toggle them, and both users list with filters.

ListQuery(completed, status, priority, tags, search, sort, order, limit, offset) ==
    [completed |-> completed, status |-> status, priority |-> priority,
     tags |-> tags, search |-> search, sort |-> sort, order |-> order,
     limit |-> limit, offset |-> offset]

\* A request that sets only the given filters; the rest are the defaults.
Filters(completed, status, priority, tags, search) ==
    ListQuery(completed, status, priority, tags, search, NULL, "desc", DefaultLimit, 0)

\* Query strings of GET /api/v1/tasks.
FilterListInputs ==
    { Filters(NULL, NULL, NULL, NULL, NULL),
      Filters(Some(TRUE), NULL, NULL, NULL, NULL),
      Filters(Some(FALSE), NULL, NULL, NULL, NULL),
      Filters(NULL, Some("pending"), NULL, NULL, NULL),
      Filters(NULL, Some("completed"), NULL, NULL, NULL),
      Filters(Some(TRUE), Some("all"), NULL, NULL, NULL),
      Filters(Some(TRUE), Some("pending"), NULL, NULL, NULL),
      Filters(NULL, NULL, Some("high"), NULL, NULL),
      Filters(NULL, NULL, NULL, Some(<<"w">>), NULL),
      Filters(NULL, NULL, NULL, Some(<<"w", ",", " ", "h">>), NULL),
      Filters(NULL, NULL, NULL, Some(<<",">>), NULL),
      Filters(NULL, NULL, NULL, NULL, Some(<<"B">>)),
      Filters(NULL, NULL, NULL, NULL, Some(<<"%">>)),
      Filters(NULL, NULL, NULL, NULL, Some(<<" ">>)),
      Filters(NULL, Some("pending"), Some("low"), Some(<<"h">>), Some(<<"a">>)),
      ListQuery(NULL, NULL, NULL, NULL, NULL, Some("priority"), "asc", 1, 1),
      ListQuery(NULL, NULL, NULL, NULL, NULL, Some("title"), "desc", 0, 0) }

ToolList(status, priority, tags, search, sort_by, limit) ==
    [status |-> status, priority |-> priority, tags |-> tags,
     search |-> search, sort_by |-> sort_by, limit |-> limit]

\* Arguments of the list_tasks tool.
ToolListInputs ==
    { ToolList("all", NULL, NULL, NULL, NULL, 20),
      ToolList("pending", Some("high"), NULL, NULL, NULL, 20),
      ToolList("completed", Some("urgent"), Some(<<TagW, TagH>>), NULL, Some("priority"), 20),
      ToolList("all", NULL, NULL, Some(<<"B">>), Some("title"), 1) }

QueryCreateInputs ==
    {b \in CreateInputs : TaskCreate(b) # NULL /\ b.due_date = NULL /\ b.recurring = NULL}

OtherCreateInputs == {b \in QueryCreateInputs : b.priority = "medium"}

NextQuery ==
    \/ \E body \in QueryCreateInputs : create_task("u1", body) /\ UNCHANGED aux
    \/ \E body \in OtherCreateInputs : create_task("u2", body) /\ UNCHANGED aux
    \/ \E c \in OwnCalls : toggle_task(c[1], c[2]) /\ UNCHANGED aux
    \/ \E u \in Users, q \in FilterListInputs : list_tasks(u, q) /\ UNCHANGED aux
    \/ \E u \in Users, a \in ToolListInputs : tool_list_tasks(u, a) /\ UNCHANGED aux

SpecQuery == Init /\ [][NextQuery]_vars

\* The ids a listing returned.
Returned == {resp.tasks[k] : k \in 1..Len(resp.tasks)}

\* The last call was a listing by GET /api/v1/tasks that was answered.
Listed == resp.op = "list_tasks" /\ resp.status = 200

C7_TotalCountsTheFilter ==
    (Listed /\ resp.req.completed # NULL /\ resp.req.status = NULL) =>
       /\ resp.total =
            Cardinality({i \in Owned(resp.user) : db[i].completed = resp.req.completed[1]})
       /\ \A i \in Returned : db[i].completed = resp.req.completed[1]

\* needle occurs in hay
IsSubstring(needle, hay) ==
    \E k \in 0..(Len(hay) - Len(needle)) : SubSeq(hay, k + 1, k + Len(needle)) = needle

\* The row satisfies the filters of a GET /api/v1/tasks request: status (the
\* status value before the legacy flag), priority, any requested tag, and
\* the search term as a case-insensitive substring of the title.
Matches(t, q) ==
    /\ IF q.status \in {Some("pending"), Some("completed")}
       THEN t.completed = (q.status = Some("completed"))
       ELSE q.completed # NULL => t.completed = q.completed[1]
    /\ q.priority # NULL => t.priority = q.priority[1]
    /\ (q.tags # NULL /\ TagList(q.tags[1]) # {}) =>
          \E tag \in TagList(q.tags[1]) : In(tag, t.tags)
    /\ (q.search # NULL /\ strip(q.search[1]) # <<>>) =>
          IsSubstring(lower(strip(q.search[1])), lower(t.title))

\* The row satisfies the filters of a list_tasks tool call.
ToolMatches(t, a) ==
    /\ a.status \in {"pending", "completed"} => t.completed = (a.status = "completed")
    /\ (a.priority # NULL /\ a.priority[1] \in Priorities) => t.priority = a.priority[1]
    /\ (a.tags # NULL /\ a.tags[1] # <<>>) =>
          \E k \in 1..Len(a.tags[1]) : In(a.tags[1][k], t.tags)
    /\ (a.search # NULL /\ a.search[1] # <<>>) =>
          IsSubstring(lower(a.search[1]), lower(t.title))

\* C10: a listing whose page holds the whole result returns exactly the
\* caller's rows that satisfy every filter of the call.
C10_ItemsAreTheMatches ==
    /\ (Listed /\ resp.req.offset = 0 /\ resp.req.limit >= Cardinality(Owned(resp.user))) =>
          Returned = {i \in Owned(resp.user) : Matches(db[i], resp.req)}
    /\ (resp.op = "tool_list_tasks" /\ resp.req.limit >= Cardinality(Owned(resp.user))) =>
          Returned = {i \in Owned(resp.user) : ToolMatches(db[i], resp.req)}

\* C11: a listing that is given both a status value and the legacy
\* completed flag (and a page that holds the whole result) returns the
\* caller's rows the status value selects: the Pending rows for pending, the
\* Completed rows for completed, every row for all.
C11_StatusAloneDecides ==
    (/\ Listed
     /\ resp.req.status # NULL /\ resp.req.completed # NULL
     /\ resp.req.priority = NULL /\ resp.req.tags = NULL /\ resp.req.search = NULL
     /\ resp.req.offset = 0 /\ resp.req.limit >= Cardinality(Owned(resp.user)))
    => Returned =
          {i \in Owned(resp.user) :
              /\ resp.req.status = Some("pending") => ~db[i].completed
              /\ resp.req.status = Some("completed") => db[i].completed}

----------------------------------------------------------------------------
\* Sorting and paging (SpecSort): one user creates rows that differ in
\* priority and due date and lists them under every sort key, order and page.

SortCreateInputs ==
    {b \in CreateInputs :
        /\ TaskCreate(b) # NULL /\ b.recurring \in {NULL, Some("monthly")}
        /\ b.priority = "high" => b.due_date # NULL}

Sorted(sort, order, limit, offset) ==
    ListQuery(NULL, NULL, NULL, NULL, NULL, sort, order, limit, offset)

\* Query strings of GET /api/v1/tasks that sort and page.
SortListInputs ==
    { Sorted(Some("priority"), "desc", DefaultLimit, 0),
      Sorted(Some("priority"), "asc", DefaultLimit, 0),
      Sorted(Some("due_date"), "desc", DefaultLimit, 0),
      Sorted(Some("due_date"), "asc", DefaultLimit, 0),
      Sorted(Some("title"), "asc", MaxLimit, 0),
      Sorted(Some("created_at"), "asc", MinLimit, 1),
      Sorted(NULL, "desc", 2, 1),
      Sorted(NULL, "desc", DefaultLimit, MaxTasks + 1),
      Sorted(NULL, "desc", MinLimit - 1, 0),
      Sorted(NULL, "desc", MaxLimit + 1, 0),
      Sorted(NULL, "desc", DefaultLimit, 0 - 1),
      ListQuery(NULL, NULL, Some("high"), NULL, NULL, Some("due_date"), "asc", 1, 1) }

\* Arguments of the list_tasks tool that sort and cut.
SortToolInputs ==
    { ToolList("all", NULL, NULL, NULL, Some("priority"), 20),
      ToolList("all", NULL, NULL, NULL, Some("due_date"), 20),
      ToolList("all", NULL, NULL, NULL, Some("title"), 2),
      ToolList("pending", NULL, NULL, NULL, NULL, 0) }

NextSort ==
    \/ \E body \in SortCreateInputs : create_task("u1", body) /\ UNCHANGED aux
    \/ \E q \in SortListInputs : list_tasks("u1", q) /\ UNCHANGED aux
    \/ \E a \in SortToolInputs : tool_list_tasks("u1", a) /\ UNCHANGED aux

SpecSort == Init /\ [][NextSort]_vars

\* The last call was a listing by the list_tasks tool that returned.
ToolListed == resp.op = "tool_list_tasks" /\ resp.detail = ""

\* The rank the priorities are sorted by: high, medium, low.
PriorityRank(p) == CASE p = "high" -> 1 [] p = "medium" -> 2 [] p = "low" -> 3

\* C12: a listing sorted by priority is answered, and in it no row comes
\* after a row of a lower priority when the order is desc (and in the tool's
\* listing), and no row comes after a row of a higher priority when the
\* order is asc.
C12_PriorityOrder ==
    /\ (/\ resp.op = "list_tasks" /\ resp.req.sort = Some("priority")
        /\ resp.req.limit >= MinLimit /\ resp.req.limit <= MaxLimit
        /\ resp.req.offset >= 0) =>
          /\ resp.status = 200
          /\ \A k, l \in 1..Len(resp.tasks) :
                k < l =>
                   IF resp.req.order = "desc"
                   THEN PriorityRank(db[resp.tasks[k]].priority)
                           <= PriorityRank(db[resp.tasks[l]].priority)
                   ELSE PriorityRank(db[resp.tasks[k]].priority)
                           >= PriorityRank(db[resp.tasks[l]].priority)
    /\ (resp.op = "tool_list_tasks" /\ resp.req.sort_by = Some("priority")) =>
          /\ resp.detail = ""
          /\ \A k, l \in 1..Len(resp.tasks) :
                k < l => PriorityRank(db[resp.tasks[k]].priority)
                            <= PriorityRank(db[resp.tasks[l]].priority)

\* C13: in a listing sorted by due date no row with a due date comes after
\* a row without one, whatever the order, and the rows with a due date are
\* ascending for asc (and in the tool's listing) and descending for desc.
C13_DueDateOrderNullsLast ==
    /\ (Listed /\ resp.req.sort = Some("due_date")) =>
          \A k, l \in 1..Len(resp.tasks) :
             k < l =>
                LET a == db[resp.tasks[k]].due_date
                    b == db[resp.tasks[l]].due_date
                IN  /\ a = NULL => b = NULL
                    /\ (a # NULL /\ b # NULL) =>
                          IF resp.req.order = "asc" THEN a[1] <= b[1] ELSE a[1] >= b[1]
    /\ (ToolListed /\ resp.req.sort_by = Some("due_date")) =>
          \A k, l \in 1..Len(resp.tasks) :
             k < l =>
                LET a == db[resp.tasks[k]].due_date
                    b == db[resp.tasks[l]].due_date
                IN  /\ a = NULL => b = NULL
                    /\ (a # NULL /\ b # NULL) => a[1] <= b[1]

\* C13 witness: a listing sorted by due date, order desc, that returned the
\* later date, the earlier date and a row without a due date in this order.
C13_Witness ==
    /\ Listed /\ resp.req.sort = Some("due_date") /\ resp.req.order = "desc"
    /\ Len(resp.tasks) = 3
    /\ db[resp.tasks[1]].due_date = Some(D0131)
    /\ db[resp.tasks[2]].due_date = Some(D0101)
    /\ db[resp.tasks[3]].due_date = NULL

\* limit clamped into [1, 100]
Clamp(limit) == IF limit < 1 THEN 1 ELSE IF limit > 100 THEN 100 ELSE limit

\* The elements of seq at positions offset .. offset + n - 1, counted from 0.
Slice(seq, offset, n) ==
    [k \in 1..(IF Len(seq) - offset < n
               THEN (IF Len(seq) < offset THEN 0 ELSE Len(seq) - offset)
               ELSE n) |-> seq[offset + k]]

----------------------------------------------------------------------------
\* Field validation (SpecFields): one user creates, updates, sets priorities
\* and completes on both surfaces with titles, descriptions, priorities and
\* patterns inside and outside their domains.

\* Variant: the tool stores whatever priority it is given.
SetPriorityValidAny(priority) == TRUE

\* tools.set_priority: priority in ["high", "medium", "low"], tested first
SetPriorityValid(priority) == priority \in Priorities

\* tools.set_priority
set_priority(user, task_id, priority) ==
    IF ~SetPriorityValid(priority)
    THEN /\ resp' = ErrorResp("set_priority", user, task_id, "Invalid priority", priority, priority)
         /\ UNCHANGED <<db, nextId, clock>>
    ELSE IF ~Found(user, task_id)
    THEN /\ resp' = Resp("set_priority", user, task_id, 0, NotFoundText, priority)
         /\ UNCHANGED <<db, nextId, clock>>
    ELSE /\ CanTick
         /\ db' = [db EXCEPT ![task_id] =
                     [@ EXCEPT !.priority = priority, !.updated_at = Some(clock)]]
         /\ clock' = clock + 1
         /\ resp' = Resp("set_priority", user, task_id, 0, "", priority)
         /\ UNCHANGED nextId

\* PATCH /api/v1/tasks/{task_id}/priority; priority is a Literal, checked
\* before the handler runs.
update_priority(user, task_id, priority) ==
    IF priority \notin Priorities
    THEN /\ resp' = Resp("update_priority", user, task_id, 422, "validation", priority)
         /\ UNCHANGED <<db, nextId, clock>>
    ELSE IF ~Found(user, task_id)
    THEN /\ resp' = Resp("update_priority", user, task_id, 404, NotFoundText, priority)
         /\ UNCHANGED <<db, nextId, clock>>
    ELSE /\ CanTick
         /\ db' = [db EXCEPT ![task_id] =
                     [@ EXCEPT !.priority = priority, !.updated_at = Some(clock)]]
         /\ clock' = clock + 1
         /\ resp' = Resp("update_priority", user, task_id, 200, "", priority)
         /\ UNCHANGED nextId

\* tools.create_recurring_task: the pattern is checked, then add_task runs.
create_recurring_task(user, a) ==
    IF a.recurring = NULL \/ a.recurring[1] \notin RecurringPatterns
    THEN /\ resp' = ErrorResp("create_recurring_task", user, 0, "Invalid pattern", a.recurring, a)
         /\ UNCHANGED <<db, nextId, clock>>
    ELSE add_task(user, a)

\* n times the character c
Repeat(c, n) == [i \in 1..n |-> c]

\* A title of 200 characters followed by a space, and one of 201 characters.
TitlePadded == Repeat("a", MaxTitleLen) \o <<" ">>
TitleLong == Repeat("a", MaxTitleLen + 1)
DescLong == Repeat("d", MaxDescLen + 1)

FieldCreateInputs ==
    { Payload(TitleB, DescD, "high", <<>>, Some(D0101), Some("daily")),
      Payload(TitlePadded, <<>>, "medium", <<>>, NULL, NULL),
      Payload(TitleLong, <<>>, "medium", <<>>, NULL, NULL),
      Payload(TitleBlank, <<>>, "medium", <<>>, NULL, NULL),
      Payload(TitleAb, DescLong, "medium", <<>>, NULL, NULL),
      Payload(TitleAb, <<>>, "urgent", <<>>, NULL, NULL),
      Payload(TitleAb, <<>>, "medium", <<>>, NULL, Some("yearly")) }

FieldAddInputs ==
    { Payload(TitleAb, <<>>, "urgent", NULL, Some(Iso0101), Some("weekly")),
      Payload(TitleAb, <<>>, "low", NULL, NULL, Some("yearly")),
      Payload(TitleAb, <<>>, "low", NULL, NULL, Some("")),
      Payload(TitleBlank, <<>>, "medium", NULL, NULL, NULL) }

FieldUpdateInputs ==
    { [title |-> TitleB],
      [title |-> TitleBlank],
      [description |-> DescLong],
      [priority |-> "low", recurring |-> Some("weekly")],
      [priority |-> "urgent"],
      [recurring |-> Some("yearly")] }

FieldToolUpdateInputs ==
    { ToolUpdate(Some(TitleB), NULL, Some("low"), NULL, NULL, Some("monthly")),
      ToolUpdate(Some(<<>>), NULL, NULL, NULL, NULL, NULL),
      ToolUpdate(NULL, Some(DescD), Some("urgent"), NULL, NULL, Some("")),
      ToolUpdate(NULL, NULL, NULL, NULL, NULL, Some("yearly")) }

PriorityInputs == {"high", "urgent"}

NextFields ==
    \/ \E body \in FieldCreateInputs : create_task("u1", body) /\ UNCHANGED aux
    \/ \E a \in FieldAddInputs : add_task("u1", a) /\ UNCHANGED aux
    \/ \E a \in FieldAddInputs : create_recurring_task("u1", a) /\ UNCHANGED aux
    \/ \E c \in OwnCalls, body \in FieldUpdateInputs : update_task(c[1], c[2], body) /\ UNCHANGED aux
    \/ \E c \in OwnCalls, a \in FieldToolUpdateInputs : tool_update_task(c[1], c[2], a) /\ UNCHANGED aux
    \/ \E c \in OwnCalls, p \in PriorityInputs : set_priority(c[1], c[2], p) /\ UNCHANGED aux
    \/ \E c \in OwnCalls, p \in PriorityInputs : update_priority(c[1], c[2], p) /\ UNCHANGED aux
    \/ \E c \in OwnCalls : toggle_task(c[1], c[2]) /\ UNCHANGED aux
    \/ \E c \in OwnCalls : complete_task(c[1], c[2]) /\ UNCHANGED aux

SpecFields == Init /\ [][NextFields]_vars

\* C15: a create call whose title has between 1 and 200 characters after
\* trimming (and whose other fields are valid) succeeds, and the row it
\* stored has the trimmed title.
C15_TrimmedTitleIsStored ==
    (/\ resp.op = "create_task"
     /\ Len(strip(resp.req.title)) >= 1 /\ Len(strip(resp.req.title)) <= 200
     /\ Len(resp.req.description) <= 1000
     /\ resp.req.priority \in {"high", "medium", "low"}
     /\ resp.req.recurring \in {NULL, Some("daily"), Some("weekly"), Some("monthly")})
    => /\ resp.status = 201
       /\ resp.task_id \in DOMAIN db
       /\ db[resp.task_id].title = strip(resp.req.title)

\* C16: every stored row has a title that is not empty, not blank and at
\* most 200 characters long, and a description of at most 1000 characters.
C16_TitleAndDescriptionBounds ==
    \A i \in DOMAIN db :
       /\ strip(db[i].title) # <<>>
       /\ Len(db[i].title) <= 200
       /\ Len(db[i].description) <= 1000

\* C17: every stored row has a priority among high, medium, low and a
\* recurring field that is daily, weekly, monthly or absent.
C17_PriorityAndRecurringDomains ==
    \A i \in DOMAIN db :
       /\ db[i].priority \in {"high", "medium", "low"}
       /\ db[i].recurring \in {NULL, Some("daily"), Some("weekly"), Some("monthly")}

\* A recurring value that is given, not empty and not a known pattern.
Unrecognized(req) ==
    /\ "recurring" \in DOMAIN req
    /\ req.recurring # NULL
    /\ req.recurring[1] \notin {"daily", "weekly", "monthly", ""}

\* C21: a call with an unrecognized recurring value is refused with a
\* validation error and stores nothing on POST /tasks and PUT /tasks/{id};
\* on the add_task and update_task tools it is not an error, the call
\* succeeds and the row's recurring is none.
C21_UnrecognizedRecurring ==
    [][/\ (resp'.op \in {"create_task", "update_task"} /\ Unrecognized(resp'.req))
          => (resp'.status = 422 /\ db' = db)
       /\ (resp'.op = "add_task" /\ Unrecognized(resp'.req))
          => /\ resp'.detail = ""
             /\ resp'.task_id \in DOMAIN db' \ DOMAIN db
             /\ db'[resp'.task_id].recurring = NULL
       /\ (/\ resp'.op = "tool_update_task" /\ Unrecognized(resp'.req)
           /\ Found(resp'.user, resp'.task_id))
          => /\ resp'.detail = ""
             /\ db'[resp'.task_id].recurring = NULL]_vars

----------------------------------------------------------------------------
\* Deletion (SpecDelete): both users create recurring rows, complete them
\* (which spawns rows that name them as parent), delete and read.

DeleteCreateInputs ==
    {b \in CreateInputs : TaskCreate(b) # NULL /\ b.priority = "high" /\ b.due_date # NULL}

NextDelete ==
    \/ \E u \in Users, body \in DeleteCreateInputs : create_task(u, body) /\ UNCHANGED aux
    \/ \E c \in OwnCalls : toggle_task(c[1], c[2]) /\ UNCHANGED aux
    \/ \E c \in OwnCalls : delete_task(c[1], c[2]) /\ UNCHANGED aux
    \/ \E c \in OwnCalls : tool_delete_task(c[1], c[2]) /\ UNCHANGED aux
    \/ \E c \in AnyCalls : get_task(c[1], c[2]) /\ UNCHANGED aux

SpecDelete == Init /\ [][NextDelete]_vars

\* C18: a delete call by the owner of the row succeeds, removes that row
\* and no other, and leaves every other row as it was, the rows that name
\* the deleted row as their parent included; a read of an id that has no
\* row is answered Not found.
C18_DeleteRemovesExactlyTheTarget ==
    [][/\ (/\ resp'.op \in {"delete_task", "tool_delete_task"}
           /\ resp'.task_id \in DOMAIN db
           /\ db[resp'.task_id].user_id = resp'.user)
          => /\ resp'.detail = ""
             /\ DOMAIN db' = DOMAIN db \ {resp'.task_id}
             /\ \A i \in DOMAIN db' : db'[i] = db[i]
       /\ (resp'.op = "get_task" /\ resp'.task_id \notin DOMAIN db')
          => resp'.status = 404]_vars

----------------------------------------------------------------------------
\* Tags (SpecTags): one user creates rows with no tag, one tag and the same
\* tag twice, and adds, removes and replaces tags on both surfaces.

\* Variant: the tag is appended whether or not the list holds it.
AddTagAlways(current_tags, tag) == Append(current_tags, tag)

\* add_tag / update_tags "add": if tag not in current_tags: append
AddTag(current_tags, tag) ==
    IF In(tag, current_tags) THEN current_tags ELSE Append(current_tags, tag)

\* current_tags.remove(tag): the list without the first occurrence of tag
RECURSIVE RemoveFirst(_, _)
RemoveFirst(current_tags, tag) ==
    IF current_tags = <<>> THEN <<>>
    ELSE IF Head(current_tags) = tag THEN Tail(current_tags)
    ELSE <<Head(current_tags)>> \o RemoveFirst(Tail(current_tags), tag)

\* update_tags "add": for tag in tags, in order
RECURSIVE AddAll(_, _)
AddAll(current_tags, tags) ==
    IF tags = <<>> THEN current_tags
    ELSE AddAll(AddTag(current_tags, Head(tags)), Tail(tags))

\* update_tags "remove": [t for t in current_tags if t not in tags]
RECURSIVE RemoveAll(_, _)
RemoveAll(current_tags, tags) ==
    IF current_tags = <<>> THEN <<>>
    ELSE (IF In(Head(current_tags), tags) THEN <<>> ELSE <<Head(current_tags)>>)
            \o RemoveAll(Tail(current_tags), tags)

\* tools.add_tag: the row is written only when the tag was not on it.
add_tag(user, task_id, tag) ==
    IF ~Found(user, task_id)
    THEN /\ resp' = Resp("add_tag", user, task_id, 0, NotFoundText, tag)
         /\ UNCHANGED <<db, nextId, clock>>
    ELSE IF In(tag, db[task_id].tags)
    THEN /\ resp' = Resp("add_tag", user, task_id, 0, "", tag)
         /\ UNCHANGED <<db, nextId, clock>>
    ELSE /\ CanTick
         /\ db' = [db EXCEPT ![task_id] =
                     [@ EXCEPT !.tags = AddTag(@, tag), !.updated_at = Some(clock)]]
         /\ clock' = clock + 1
         /\ resp' = Resp("add_tag", user, task_id, 0, "", tag)
         /\ UNCHANGED nextId

\* tools.remove_tag: the row is written only when the tag was on it.
remove_tag(user, task_id, tag) ==
    IF ~Found(user, task_id)
    THEN /\ resp' = Resp("remove_tag", user, task_id, 0, NotFoundText, tag)
         /\ UNCHANGED <<db, nextId, clock>>
    ELSE IF ~In(tag, db[task_id].tags)
    THEN /\ resp' = Resp("remove_tag", user, task_id, 0, "", tag)
         /\ UNCHANGED <<db, nextId, clock>>
    ELSE /\ CanTick
         /\ db' = [db EXCEPT ![task_id] =
                     [@ EXCEPT !.tags = RemoveFirst(@, tag), !.updated_at = Some(clock)]]
         /\ clock' = clock + 1
         /\ resp' = Resp("remove_tag", user, task_id, 0, "", tag)
         /\ UNCHANGED nextId

\* PATCH /api/v1/tasks/{task_id}/tags: the row is always written.
update_tags(user, task_id, q) ==
    IF q.action \notin {"add", "remove", "replace"}
    THEN /\ resp' = Resp("update_tags", user, task_id, 422, "validation", q)
         /\ UNCHANGED <<db, nextId, clock>>
    ELSE IF ~Found(user, task_id)
    THEN /\ resp' = Resp("update_tags", user, task_id, 404, NotFoundText, q)
         /\ UNCHANGED <<db, nextId, clock>>
    ELSE LET current_tags ==
                 IF q.action = "add" THEN AddAll(db[task_id].tags, q.tags)
                 ELSE IF q.action = "remove" THEN RemoveAll(db[task_id].tags, q.tags)
                 ELSE q.tags
         IN  /\ CanTick
             /\ db' = [db EXCEPT ![task_id] =
                         [@ EXCEPT !.tags = current_tags, !.updated_at = Some(clock)]]
             /\ clock' = clock + 1
             /\ resp' = Resp("update_tags", user, task_id, 200, "", q)
             /\ UNCHANGED nextId

TagsQuery(action, tags) == [action |-> action, tags |-> tags]

\* Query parameters and bodies of the tags route.
UpdateTagsInputs ==
    { TagsQuery("add", <<TagW>>),
      TagsQuery("add", <<TagH, TagW, TagH>>),
      TagsQuery("remove", <<TagW>>),
      TagsQuery("replace", <<TagW, TagW>>),
      TagsQuery("clear", <<>>) }

TagCreateInputs ==
    { Payload(TitleAb, <<>>, "medium", <<>>, NULL, NULL),
      Payload(TitleAb, <<>>, "medium", <<TagH, TagW>>, NULL, NULL) }

TagUpdateInputs == { [tags |-> <<TagW, TagH, TagW>>] }

TagInputs == {TagW, TagH}

NextTags ==
    \/ \E body \in TagCreateInputs : create_task("u1", body) /\ UNCHANGED aux
    \/ \E c \in OwnCalls, body \in TagUpdateInputs : update_task(c[1], c[2], body) /\ UNCHANGED aux
    \/ \E c \in OwnCalls, q \in UpdateTagsInputs : update_tags(c[1], c[2], q) /\ UNCHANGED aux
    \/ \E c \in OwnCalls, tag \in TagInputs : add_tag(c[1], c[2], tag) /\ UNCHANGED aux
    \/ \E c \in OwnCalls, tag \in TagInputs : remove_tag(c[1], c[2], tag) /\ UNCHANGED aux

SpecTags == Init /\ [][NextTags]_vars

\* The step is a successful call with the given tool, or with the tags
\* route under the given action and one tag, on a stored row.
TagStep(tool, action) ==
    /\ resp'.detail = "" /\ resp'.task_id \in DOMAIN db
    /\ \/ resp'.op = tool
       \/ /\ resp'.op = "update_tags"
          /\ resp'.req.action = action /\ Len(resp'.req.tags) = 1

\* The tag of the call of the step.
StepTag == IF resp'.op = "update_tags" THEN resp'.req.tags[1] ELSE resp'.req

\* C19 as stated: adding a tag the row does not hold appends it once, and
\* adding a tag the row holds leaves the row, tags and updated_at included,
\* as it was.
C19_AddTagLeavesRowWhenPresent ==
    [][TagStep("add_tag", "add") =>
         IF In(StepTag, db[resp'.task_id].tags)
         THEN db'[resp'.task_id] = db[resp'.task_id]
         ELSE db'[resp'.task_id].tags = Append(db[resp'.task_id].tags, StepTag)]_vars

\* C19 as amended: adding a tag the row does not hold appends it once, and
\* adding a tag the row holds leaves the tags as they were; the tool then
\* leaves the whole row as it was, the tags route stamps updated_at.
C19_AddTagLeavesTagsWhenPresent ==
    [][TagStep("add_tag", "add") =>
         IF In(StepTag, db[resp'.task_id].tags)
         THEN /\ db'[resp'.task_id].tags = db[resp'.task_id].tags
              /\ resp'.op = "add_tag" => db'[resp'.task_id] = db[resp'.task_id]
              /\ resp'.op = "update_tags" =>
                    db'[resp'.task_id] =
                       [db[resp'.task_id] EXCEPT !.updated_at = Some(clock)]
         ELSE db'[resp'.task_id].tags = Append(db[resp'.task_id].tags, StepTag)]_vars

\* C19 witness: the tool was asked to add a tag to a row that has held it
\* since its creation, and the row has never been written since.
C19_Witness ==
    /\ resp.op = "add_tag" /\ resp.detail = ""
    /\ resp.task_id \in DOMAIN db
    /\ In(resp.req, db[resp.task_id].tags)
    /\ db[resp.task_id].updated_at = NULL

\* C20: after a tag is removed the row does not hold it, and removing a
\* tag the row does not hold leaves the tags as they were.
C20_RemoveTagRemovesEveryOccurrence ==
    [][TagStep("remove_tag", "remove") =>
         /\ ~In(StepTag, db'[resp'.task_id].tags)
         /\ ~In(StepTag, db[resp'.task_id].tags) =>
               db'[resp'.task_id].tags = db[resp'.task_id].tags]_vars

----------------------------------------------------------------------------
\* Unparsable due dates on the tools (SpecParse): a user adds rows, and calls
\* update_task and set_due_date with good and bad dates on every id, the
\* ids that have no row included.

ParseAddInputs == {a \in AddTaskInputs : a.recurring \in {NULL, Some("monthly")}}
ParseToolUpdateInputs == {a \in ToolUpdateInputs : a.due_date # NULL}
ParseCalls == {"u1"} \X TaskIds

NextParse ==
    \/ \E a \in ParseAddInputs : add_task("u1", a) /\ UNCHANGED aux
    \/ \E c \in ParseCalls, a \in ParseToolUpdateInputs : tool_update_task(c[1], c[2], a) /\ UNCHANGED aux
    \/ \E c \in ParseCalls, d \in SetDueDateInputs : set_due_date(c[1], c[2], d) /\ UNCHANGED aux

SpecParse == Init /\ [][NextParse]_vars

\* A due_date string that is given (not empty) and that fromisoformat refuses.
Unparsable(due_date) ==
    due_date # <<>> /\ fromisoformat(replaceZ(due_date)) = NULL

\* The response is an error whose text interpolates the due date given.
InvalidDueDate(r, due_date) ==
    r.detail = "Invalid due_date format" /\ r.arg = Some(due_date)

----------------------------------------------------------------------------
\* The console application's in-memory store: src/todo/manager.py
\* (SpecManager).

\* models.Task of the console application
ManagerTask(id, title, description, completed, created_at, updated_at) ==
    [id |-> id, title |-> title, description |-> description,
     completed |-> completed, created_at |-> created_at, updated_at |-> updated_at]

\* An id taken from the number of tasks held, which a delete frees again.
NewIdByCount(m) == Cardinality(DOMAIN m._tasks) + 1

\* id=self._next_id
NewId(m) == m._next_id

\* What a call left in the manager: the call and what it returned.
ManagerResult(op, id, ok) == [op |-> op, id |-> id, ok |-> ok]

\* TaskManager.add
add(title, description) ==
    LET task == ManagerTask(NewId(manager), title, description, FALSE, clock, NULL)
    IN  /\ CanTick /\ manager._next_id <= MaxTasks
        /\ manager' = [manager EXCEPT
                         !._tasks = [k \in DOMAIN @ \cup {task.id} |->
                                        IF k = task.id THEN task ELSE @[k]],
                         !._next_id = @ + 1,
                         !.result = ManagerResult("add", task.id, TRUE),
                         !.adds = @ + 1]
        /\ clock' = clock + 1
        /\ UNCHANGED <<db, nextId, resp, session>>

\* TaskManager.update
update(task_id, title, description) ==
    IF task_id \notin DOMAIN manager._tasks
    THEN /\ manager' = [manager EXCEPT !.result = ManagerResult("update", task_id, FALSE)]
         /\ UNCHANGED <<db, nextId, clock, resp, session>>
    ELSE /\ CanTick
         /\ manager' = [manager EXCEPT
                          !._tasks[task_id].title = IF title # NULL THEN title[1] ELSE @,
                          !._tasks[task_id].description =
                              IF description # NULL THEN description[1] ELSE @,
                          !._tasks[task_id].updated_at = Some(clock),
                          !.result = ManagerResult("update", task_id, TRUE)]
         /\ clock' = clock + 1
         /\ UNCHANGED <<db, nextId, resp, session>>

\* TaskManager.delete
delete(task_id) ==
    /\ manager' = IF task_id \in DOMAIN manager._tasks
                  THEN [manager EXCEPT
                          !._tasks = [k \in DOMAIN @ \ {task_id} |-> @[k]],
                          !.result = ManagerResult("delete", task_id, TRUE)]
                  ELSE [manager EXCEPT !.result = ManagerResult("delete", task_id, FALSE)]
    /\ UNCHANGED <<db, nextId, clock, resp, session>>

\* TaskManager.toggle_complete
toggle_complete(task_id) ==
    IF task_id \notin DOMAIN manager._tasks
    THEN /\ manager' = [manager EXCEPT
                          !.result = ManagerResult("toggle_complete", task_id, FALSE)]
         /\ UNCHANGED <<db, nextId, clock, resp, session>>
    ELSE /\ CanTick
         /\ manager' = [manager EXCEPT
                          !._tasks[task_id].completed = ~@,
                          !._tasks[task_id].updated_at = Some(clock),
                          !.result = ManagerResult("toggle_complete", task_id, TRUE)]
         /\ clock' = clock + 1
         /\ UNCHANGED <<db, nextId, resp, session>>

ManagerTitles == {TitleAb, TitleB}
ManagerDescriptions == {<<>>, DescD}

NextManager ==
    \/ \E title \in ManagerTitles, description \in ManagerDescriptions : add(title, description)
    \/ \E i \in TaskIds, title \in {NULL, Some(TitleB)}, description \in {NULL, Some(DescD)} : update(i, title, description)
    \/ \E i \in TaskIds : delete(i)
    \/ \E i \in TaskIds : toggle_complete(i)

SpecManager == Init /\ [][NextManager]_vars

\* C23: the n-th call of add returns the id n, whatever was deleted before
\* it, so no id is handed out twice; and after every add, update,
\* toggle_complete and delete each stored task is kept under its own id.
C23_ManagerIds ==
    [][/\ \A k \in DOMAIN manager'._tasks : manager'._tasks[k].id = k
       /\ (manager'.result.op = "add" /\ manager'.adds # manager.adds)
          => /\ manager'.result.id = manager'.adds
             /\ manager'.result.id \in DOMAIN manager'._tasks
             /\ \A k \in DOMAIN manager._tasks : k < manager'.result.id]_vars

\* The second add came after the first task was deleted, and returned 2.
C23_Witness ==
    /\ manager.result.op = "add" /\ manager.adds = 2
    /\ DOMAIN manager._tasks = {2}

----------------------------------------------------------------------------
\* Completion by every operation that can set the flag (SpecComplete): the
\* toggle route, the complete_task tool and PUT /tasks/{id} with completed.

CompletedInputs == {[completed |-> TRUE], [completed |-> FALSE]}

NextComplete ==
    \/ \E body \in RecurCreateInputs : create_task("u1", body) /\ UNCHANGED aux
    \/ \E c \in OwnCalls : toggle_task(c[1], c[2]) /\ UNCHANGED aux
    \/ \E c \in OwnCalls : complete_task(c[1], c[2]) /\ UNCHANGED aux
    \/ \E c \in OwnCalls, body \in CompletedInputs : update_task(c[1], c[2], body) /\ UNCHANGED aux

SpecComplete == Init /\ [][NextComplete]_vars

\* C24: every step that takes a row with recurring and due_date set from
\* Pending to Completed, by toggle_task, complete_task or update_task with
\* completed=true, inserts a Pending row that points back at it.
C24_EveryCompletionSpawns ==
    [][\A i \in DOMAIN db :
         (/\ i \in DOMAIN db' /\ ~db[i].completed /\ db'[i].completed
          /\ RecurringWithDue(db[i]))
         => \E n \in Inserted :
               /\ db'[n].recurring_parent_id = Some(i)
               /\ ~db'[n].completed]_vars

----------------------------------------------------------------------------
\* What completion leaves alone (SpecRecur).

\* The fields of a row other than the two a completion writes.
KeptFields(t) == DOMAIN t \ {"completed", "updated_at"}

\* C27: a successful toggle_task or complete_task call that leaves a row with
\* recurring and due_date set Completed changes only completed and
\* updated_at of that row: its other fields are as before, it is still
\* stored, and every other row stored before the call is unchanged.
C27_CompletionFrame ==
    [][\A i \in DOMAIN db :
         (/\ resp'.op \in {"toggle_task", "complete_task"}
          /\ resp'.detail = "" /\ resp'.task_id = i
          /\ RecurringWithDue(db[i])
          /\ i \in DOMAIN db' => db'[i].completed)
         => /\ i \in DOMAIN db'
            /\ \A f \in KeptFields(db[i]) : db'[i][f] = db[i][f]
            /\ \A j \in DOMAIN db \ {i} : j \in DOMAIN db' /\ db'[j] = db[j]]_vars

\* A recurring row with a due date, a reminder and tags was completed while
\* another row was stored beside it, and its occurrence was inserted.
C27_Witness ==
    /\ resp.op \in {"toggle_task", "complete_task"} /\ resp.detail = ""
    /\ resp.task_id \in DOMAIN db
    /\ db[resp.task_id].completed
    /\ RecurringWithDue(db[resp.task_id])
    /\ db[resp.task_id].reminder_at # NULL
    /\ \E j \in DOMAIN db : j # resp.task_id /\ db[j].recurring_parent_id = NULL
    /\ \E n \in DOMAIN db : db[n].recurring_parent_id = Some(resp.task_id)

\* The rows that point back at row i.
Occurrences(i) == {n \in DOMAIN db : db[n].recurring_parent_id = Some(i)}

\* C28: every stored row has at most one occurrence spawned from it, however
\* often it is toggled or completed.
C28_AtMostOneOccurrence ==
    \A i \in DOMAIN db : Cardinality(Occurrences(i)) <= 1

----------------------------------------------------------------------------
\* The reminder offset of the due-date route (SpecReminder): every integer
\* is accepted for reminder_minutes_before; zero and a negative value are
\* among the inputs.

ReminderInputs ==
    DueDateInputs \cup { DueQuery(Some(D0131), TRUE, 0),
                         DueQuery(Some(D0131), TRUE, -30) }

NextReminder ==
    \/ \E body \in DueCreateInputs : create_task("u1", body) /\ UNCHANGED aux
    \/ \E c \in OwnCalls, q \in ReminderInputs : update_due_date(c[1], c[2], q) /\ UNCHANGED aux
    \/ \E c \in OwnCalls : toggle_task(c[1], c[2]) /\ UNCHANGED aux

SpecReminder == Init /\ [][NextReminder]_vars

\* C29: every stored row whose reminder_at and due_date are set has its
\* reminder_at not later than its due_date.
C29_ReminderNotAfterDue ==
    \A i \in DOMAIN db :
       (db[i].reminder_at # NULL /\ db[i].due_date # NULL)
       => db[i].reminder_at[1] <= db[i].due_date[1]

----------------------------------------------------------------------------
\* Requests in flight.  A handler is three steps against the store: its
\* select, the work on the loaded object (which writes nothing), and its
\* commit.  Nothing in the handlers locks the row or checks a version, so the
\* steps of two requests interleave freely, and a request can fail at any
\* point before its commit.

\* The columns whose value the handler changed: what the UPDATE sets.
Changed(old, new) == {f \in DOMAIN old : new[f] # old[f]}

\* session.add(task) of a loaded object
UpdateOf(old, new) == [kind |-> "update", id |-> old.id, row |-> new, cols |-> Changed(old, new)]

\* session.add(next_task) of a new object
InsertOf(row) == [kind |-> "insert", id |-> row.id, row |-> row, cols |-> {}]

\* One write reaching the table: an UPDATE of the changed columns of the row
\* with that id, or an INSERT.
Write(table, w) ==
    IF w.kind = "insert"
    THEN table @@ (w.id :> w.row)
    ELSE IF w.id \in DOMAIN table
    THEN [table EXCEPT ![w.id] = [f \in DOMAIN @ |-> IF f \in w.cols THEN w.row[f] ELSE @[f]]]
    ELSE table

\* The writes of one transaction, in order.
RECURSIVE Flush(_, _)
Flush(table, writes) ==
    IF writes = <<>> THEN table ELSE Flush(Write(table, Head(writes)), Tail(writes))

\* Variant: every write is committed by itself.
CommitUnitsEach(writes) == [k \in 1..Len(writes) |-> <<writes[k]>>]

\* db.add(next_task); db.add(task); db.commit(): one commit for all the
\* writes of the request.
CommitUnits(writes) == <<writes>>

\* The writes a handler prepares from the row it loaded.
SessionWrites(s, now, id) ==
    LET task == s.task[1]
    IN  CASE s.op = "toggle_task" ->
               LET t == ToggledTask(task, now)
               IN  <<UpdateOf(task, t)>> \o
                   (IF ToggleSpawns(t) THEN <<InsertOf(ToggleNextTask(t, s.user, id, now))>> ELSE <<>>)
          [] s.op = "complete_task" ->
               LET t == CompletedTask(task, now)
               IN  <<UpdateOf(task, t)>> \o
                   (IF CompleteSpawns(t) THEN <<InsertOf(CompleteNextTask(t, s.user, id, now))>> ELSE <<>>)
          [] s.op = "add_tag" ->
               IF In(s.arg, task.tags) THEN <<>>
               ELSE <<UpdateOf(task, [task EXCEPT !.tags = AddTag(@, s.arg),
                                                  !.updated_at = Some(now)])>>
          [] s.op = "remove_tag" ->
               IF ~In(s.arg, task.tags) THEN <<>>
               ELSE <<UpdateOf(task, [task EXCEPT !.tags = RemoveFirst(@, s.arg),
                                                  !.updated_at = Some(now)])>>

\* task = session.exec(statement).first(), and the Not found answer
Select(r, op, user, task_id, arg) ==
    /\ session[r].pc = "idle"
    /\ IF Found(user, task_id)
       THEN /\ session' = [session EXCEPT ![r] =
                             [pc |-> "loaded", op |-> op, user |-> user, task_id |-> task_id,
                              arg |-> arg, task |-> Some(db[task_id]), pending |-> <<>>]]
            /\ UNCHANGED resp
       ELSE /\ session' = [session EXCEPT ![r] =
                             [pc |-> "done", op |-> op, user |-> user, task_id |-> task_id,
                              arg |-> arg, task |-> NULL, pending |-> <<>>]]
            /\ resp' = Resp(op, user, task_id, IF op = "toggle_task" THEN 404 ELSE 0,
                            NotFoundText, arg)
    /\ UNCHANGED <<db, nextId, clock, manager>>

\* The assignments to the loaded object and session.add(): nothing is written.
Modify(r) ==
    /\ session[r].pc = "loaded"
    /\ LET writes == SessionWrites(session[r], clock, nextId)
       IN  /\ writes # <<>> => CanTick
           /\ Len(writes) > 1 => CanInsert
           /\ session' = [session EXCEPT
                            ![r].pc = "modified",
                            ![r].pending = IF writes = <<>> THEN <<>> ELSE CommitUnits(writes)]
           /\ clock' = IF writes # <<>> THEN clock + 1 ELSE clock
           /\ nextId' = nextId + (IF Len(writes) > 1 THEN 1 ELSE 0)
    /\ UNCHANGED <<db, resp, manager>>

\* session.commit(), and the answer once nothing is left to commit
Commit(r) ==
    /\ session[r].pc = "modified"
    /\ LET s == session[r]
           left == IF s.pending = <<>> THEN <<>> ELSE Tail(s.pending)
       IN  /\ db' = IF s.pending = <<>> THEN db ELSE Flush(db, Head(s.pending))
           /\ session' = [session EXCEPT ![r].pending = left,
                                         ![r].pc = IF left = <<>> THEN "done" ELSE "modified"]
           /\ resp' = IF left = <<>>
                      THEN Resp(s.op, s.user, s.task_id,
                                IF s.op = "toggle_task" THEN 200 ELSE 0, "", s.arg)
                      ELSE resp
    /\ UNCHANGED <<nextId, clock, manager>>

\* The request dies (an exception, a lost connection) before a commit:
\* closing the session rolls back what was not committed.
Fail(r) ==
    /\ session[r].pc \in {"loaded", "modified"}
    /\ session' = [session EXCEPT ![r].pc = "failed", ![r].pending = <<>>]
    /\ resp' = Resp(session[r].op, session[r].user, session[r].task_id, 500,
                    "Internal Server Error", session[r].arg)
    /\ UNCHANGED <<db, nextId, clock, manager>>

\* Concurrent completions (SpecTxn): a user creates recurring rows, and two
\* requests toggle or complete them with their steps interleaved.
TxnCreateInputs ==
    {b \in CreateInputs : TaskCreate(b) # NULL /\ b.recurring = Some("daily") /\ b.due_date # NULL}

NextTxn ==
    \/ \E body \in TxnCreateInputs : create_task("u1", body) /\ UNCHANGED aux
    \/ \E r \in Requests, c \in OwnCalls : Select(r, "toggle_task", c[1], c[2], NULL)
    \/ \E r \in Requests, c \in OwnCalls : Select(r, "complete_task", c[1], c[2], NULL)
    \/ \E r \in Requests : Modify(r)
    \/ \E r \in Requests : Commit(r)
    \/ \E r \in Requests : Fail(r)

SpecTxn == Init /\ [][NextTxn]_vars

\* Request r has completed its call on row i, which it read Pending with
\* recurring and due_date set.
Completion(r, i) ==
    /\ session[r].pc = "done"
    /\ session[r].op \in {"toggle_task", "complete_task"}
    /\ session[r].task_id = i /\ session[r].task # NULL
    /\ ~session[r].task[1].completed
    /\ RecurringWithDue(session[r].task[1])

\* C25: when two requests that both read the same recurring row Pending have
\* both completed it, the row has at most one occurrence.
C25_ConcurrentCompletionsSpawnOnce ==
    \A i \in DOMAIN db :
       (\A r \in Requests : Completion(r, i)) => Cardinality(Occurrences(i)) <= 1

\* C26: the store never moves to a state in which a recurring row with a due
\* date has been marked Completed without an occurrence of it being inserted
\* by the same commit, nor to one in which an occurrence is inserted while
\* its source is not Completed, whether requests interleave or fail.
C26_CompletionAndSpawnCommitTogether ==
    [][/\ \A i \in DOMAIN db :
            (/\ i \in DOMAIN db' /\ ~db[i].completed /\ db'[i].completed
             /\ RecurringWithDue(db[i]))
            => \E n \in Inserted : db'[n].recurring_parent_id = Some(i)
       /\ \A n \in Inserted :
            db'[n].recurring_parent_id # NULL
            => LET i == db'[n].recurring_parent_id[1]
               IN  i \in DOMAIN db' /\ db'[i].completed]_vars

\* One request completed a recurring row and its occurrence is stored, and
\* the other request, on the same row, failed after it had prepared its
\* writes: its occurrence, whose id it had drawn, is not stored.
C26_Witness ==
    \E r1, r2 \in Requests, i \in DOMAIN db :
       /\ Completion(r1, i) /\ Cardinality(Occurrences(i)) = 1
       /\ session[r2].pc = "failed" /\ session[r2].task_id = i
       /\ nextId = 4

\* Concurrent tag mutations (SpecTagTxn): a user creates rows with and
\* without tags, and two requests add and remove tags with their steps
\* interleaved.
NextTagTxn ==
    \/ \E body \in TagCreateInputs : create_task("u1", body) /\ UNCHANGED aux
    \/ \E r \in Requests, c \in OwnCalls, tag \in TagInputs : Select(r, "add_tag", c[1], c[2], tag)
    \/ \E r \in Requests, c \in OwnCalls, tag \in TagInputs : Select(r, "remove_tag", c[1], c[2], tag)
    \/ \E r \in Requests : Modify(r)
    \/ \E r \in Requests : Commit(r)
    \/ \E r \in Requests : Fail(r)

SpecTagTxn == Init /\ [][NextTagTxn]_vars

\* Request r has completed a tag call on row i.
TagCall(r, i) ==
    /\ session[r].pc = "done"
    /\ session[r].op \in {"add_tag", "remove_tag"}
    /\ session[r].task_id = i /\ session[r].task # NULL

\* The stored row shows what request r did: the tag it added is on the row,
\* the tag it removed is not.
Reflected(r, i) ==
    IF session[r].op = "add_tag"
    THEN In(session[r].arg, db[i].tags)
    ELSE ~In(session[r].arg, db[i].tags)

\* C30: when two requests have both completed a tag call on the same row,
\* each about a different tag, the stored row reflects both calls.
C30_NoLostTagUpdate ==
    \A i \in DOMAIN db :
       (/\ \A r \in Requests : TagCall(r, i)
        /\ session[1].arg # session[2].arg)
       => \A r \in Requests : Reflected(r, i)

============================================================================
